---- MODULE Spec2Model ----
(***************************************************************************)
(* Chaos-augmented load testing (test-scripts/): the scenario catalog, the *)
(* fault/latency injectors (network_simulator.py, chaos_real.py) and the   *)
(* load drivers (academic_test_suite_real_network.py, load-test.py,        *)
(* archived_files/academic_test_suite_48h.py).                             *)
(*                                                                         *)
(* Units.  The source computes with floats; the model computes the same    *)
(* expressions exactly on scaled integers:                                 *)
(*   - every *_ms field of a catalog table is held in microseconds         *)
(*     (0.5 ms = 500), and every sleep is a number of microseconds;        *)
(*   - every rate in [0,1] is held per mille (0.001 = 1), and a draw of    *)
(*     random.random() is an integer in 0..999;                            *)
(*   - a draw of random.normalvariate(mu, sigma) is mu + sigma*z for a     *)
(*     standard draw z taken from ZDraws (multiples of 3, so that          *)
(*     jitter/3 stays exact).                                              *)
(* The conversions ms -> s (/ 1000.0) of the source therefore disappear.   *)
(***************************************************************************)
EXTENDS Integers, Sequences, FiniteSets, TLC

(* ------------------------------ bounds --------------------------------- *)

\* the most negative standard-normal draw considered is -3*MaxZ sigmas
MaxZ == 10
\* successful apply calls per behaviour (values of the timestamp clock)
MaxClock == 2

\* requests of one batch (load_test_requests, num_requests)
MaxRequests == 3
\* concurrent_users of a suite's config
MaxUsers == 1
\* num_threads of SagaLoadTester.run_load_test
MaxThreads == 2
\* the longest list of result dicts handed to an aggregation
MaxBatch == 3
\* the longest data list handed to percentile
MaxData == 4
\* the largest elapsed time of a batch, in seconds
MaxElapsed == 2
\* the largest number of samples in a group handed to a comparison
MaxSamples == 3
\* the largest |d| handed to the classification of an effect size, in hundredths
MaxEffect == 100

None == "None"

Max(a, b) == IF a >= b THEN a ELSE b

\* standard-normal draws z (in sigmas): far below the mean (every delay is
\* clamped there) and above it (no delay is)
ZDraws == {3 * k : k \in {0 - MaxZ, 1}}

\* draws of random.random() on either side of a rate: the largest draw below
\* it and the smallest draw not below it
LossDraws(rate) == {u \in {rate - 1, rate} : u >= 0 /\ u <= 999}

(* --------------------- ScenarioCatalog: static tables ------------------ *)

\* NetworkSimulator.profiles
profiles ==
  [localhost   |-> [name |-> "Localhost", base_latency_ms |-> 1000,
                    jitter_ms |-> 500, packet_loss_rate |-> 1,
                    bandwidth_limit_mbps |-> 1000, description |-> "Local network"],
   lan         |-> [name |-> "Local Area Network", base_latency_ms |-> 5000,
                    jitter_ms |-> 2000, packet_loss_rate |-> 10,
                    bandwidth_limit_mbps |-> 100, description |-> "Corporate LAN"],
   wan_good    |-> [name |-> "Good WAN Connection", base_latency_ms |-> 50000,
                    jitter_ms |-> 10000, packet_loss_rate |-> 20,
                    bandwidth_limit_mbps |-> 50, description |-> "Good internet connection"],
   wan_average |-> [name |-> "Average WAN Connection", base_latency_ms |-> 100000,
                    jitter_ms |-> 25000, packet_loss_rate |-> 50,
                    bandwidth_limit_mbps |-> 20, description |-> "Average internet connection"],
   wan_poor    |-> [name |-> "Poor WAN Connection", base_latency_ms |-> 200000,
                    jitter_ms |-> 50000, packet_loss_rate |-> 100,
                    bandwidth_limit_mbps |-> 5, description |-> "Poor internet connection"],
   mobile_4g   |-> [name |-> "Mobile 4G Network", base_latency_ms |-> 80000,
                    jitter_ms |-> 30000, packet_loss_rate |-> 30,
                    bandwidth_limit_mbps |-> 25, description |-> "Mobile 4G connection"],
   mobile_3g   |-> [name |-> "Mobile 3G Network", base_latency_ms |-> 150000,
                    jitter_ms |-> 60000, packet_loss_rate |-> 80,
                    bandwidth_limit_mbps |-> 3, description |-> "Mobile 3G connection"],
   satellite   |-> [name |-> "Satellite Connection", base_latency_ms |-> 600000,
                    jitter_ms |-> 100000, packet_loss_rate |-> 150,
                    bandwidth_limit_mbps |-> 10, description |-> "Satellite internet"]]

\* ServerLoadSimulator.load_profiles
load_profiles ==
  [light      |-> [name |-> "Light Load", cpu_delay_ms |-> 5000,
                   memory_pressure |-> 100, io_delay_ms |-> 10000,
                   description |-> "Low server load"],
   moderate   |-> [name |-> "Moderate Load", cpu_delay_ms |-> 20000,
                   memory_pressure |-> 300, io_delay_ms |-> 50000,
                   description |-> "Moderate server load"],
   heavy      |-> [name |-> "Heavy Load", cpu_delay_ms |-> 100000,
                   memory_pressure |-> 700, io_delay_ms |-> 200000,
                   description |-> "Heavy server load"],
   overloaded |-> [name |-> "Overloaded", cpu_delay_ms |-> 500000,
                   memory_pressure |-> 900, io_delay_ms |-> 1000000,
                   description |-> "Server overloaded"]]

\* RealWorldSimulator.scenarios
scenarios ==
  [enterprise_lan    |-> [name |-> "Enterprise LAN", network_profile |-> "lan",
                          server_load |-> "light",
                          description |-> "Corporate network with good infrastructure"],
   cloud_datacenter  |-> [name |-> "Cloud Datacenter", network_profile |-> "wan_good",
                          server_load |-> "moderate",
                          description |-> "Cloud deployment with good connectivity"],
   remote_office     |-> [name |-> "Remote Office", network_profile |-> "wan_average",
                          server_load |-> "moderate",
                          description |-> "Remote office with average internet"],
   mobile_users      |-> [name |-> "Mobile Users", network_profile |-> "mobile_4g",
                          server_load |-> "heavy",
                          description |-> "Mobile users on 4G network"],
   poor_connectivity |-> [name |-> "Poor Connectivity", network_profile |-> "wan_poor",
                          server_load |-> "heavy",
                          description |-> "Poor network with overloaded server"],
   disaster_recovery |-> [name |-> "Disaster Recovery", network_profile |-> "satellite",
                          server_load |-> "overloaded",
                          description |-> "Emergency satellite connection"]]

\* RealChaosController.scenarios
chaos_scenarios ==
  [baseline       |-> [name |-> "Baseline", delay_ms |-> 0, error_rate |-> 0,
                       description |-> "Normal network conditions"],
   medium_stress  |-> [name |-> "Medium Stress", delay_ms |-> 150000, error_rate |-> 30,
                       description |-> "Moderate network degradation"],
   high_stress    |-> [name |-> "High Stress", delay_ms |-> 300000, error_rate |-> 100,
                       description |-> "Severe network conditions"],
   extreme_stress |-> [name |-> "Extreme Stress", delay_ms |-> 500000, error_rate |-> 150,
                       description |-> "Extreme network degradation"]]

\* names a caller may pass that are in no table
UnknownNames == {"no_such_name"}

\* names passed to RealWorldSimulator.apply_real_world_scenario
ScenarioArgs == DOMAIN scenarios \cup UnknownNames
\* names passed to RealChaosController.apply_scenario
ChaosArgs == DOMAIN chaos_scenarios \cup UnknownNames \cup {"enterprise_lan"}

(* ----------------------- values passed around ------------------------- *)

\* what a call of the wrapped operation does: return a response or raise
Response(status, has_content, size) ==
  [kind |-> "return", status_code |-> status, has_content |-> has_content,
   size |-> size, cls |-> None, msg |-> None]
Raise(cls, msg) ==
  [kind |-> "raise", status_code |-> 0, has_content |-> FALSE,
   size |-> 0, cls |-> cls, msg |-> msg]

\* behaviours of the external operation (requests.post/get against the target):
\* responses with or without a .content, and the library's exceptions; the
\* content length 3750 keeps every bandwidth delay a whole number of microseconds
OpBehaviours ==
  {Response(200, TRUE, 3750), Response(201, FALSE, 0), Response(500, TRUE, 0),
   Raise("Timeout", "Read timed out"),
   Raise("ConnectionError", "Connection refused")}

\* positional/keyword arguments the caller hands to the wrapper
CallArgs == {"args_a", "args_b"}

\* one observable step of a wrap: a time.sleep, a random.random() draw, a call
Sleep(what, d) == [step |-> what, dur |-> d]
Invoke == [step |-> "invoke", dur |-> 0]
LossDraw == [step |-> "loss_draw", dur |-> 0]

\* one call of the wrapped operation: what it was given and what it did
Called(args, op) == [args |-> args, did |-> op]

NoDelays == [cpu |-> 0, io |-> 0, net |-> 0, bw |-> 0]

\* no wrap has returned
NoWrap ==
  [steps |-> <<>>, delays |-> NoDelays, calls |-> <<>>, args |-> None,
   loss_draw |-> -1, result |-> [Raise(None, None) EXCEPT !.kind = None]]

NoExc == [cls |-> None, msg |-> None, arg |-> None]
ValueError(msg, arg) == [cls |-> "ValueError", msg |-> msg, arg |-> arg]

NoActivation == [scenario_applied |-> None]

(* --------------------------- NetworkSimulator -------------------------- *)

\* apply_network_profile stamping the activation time into the config it returns
apply_network_profile_stamps_config(active_profile, profile_name, now) ==
  IF profile_name \notin DOMAIN profiles
    THEN [exc |-> ValueError("Unknown profile", profile_name),
          active_profile |-> active_profile, ret |-> NoActivation]
    ELSE [exc |-> NoExc,
          active_profile |-> profile_name,
          ret |-> [profile_applied |-> profile_name, timestamp |-> now,
                   config |-> [profiles[profile_name] EXCEPT !.description = now],
                   simulation_mode |-> "REAL_NETWORK"]]

\* apply_network_profile: exception raised, active_profile afterwards, record returned
apply_network_profile(active_profile, profile_name, now) ==
  IF profile_name \notin DOMAIN profiles
    THEN [exc |-> ValueError("Unknown profile", profile_name),
          active_profile |-> active_profile, ret |-> NoActivation]
    ELSE [exc |-> NoExc,
          active_profile |-> profile_name,
          ret |-> [profile_applied |-> profile_name, timestamp |-> now,
                   config |-> profiles[profile_name],
                   simulation_mode |-> "REAL_NETWORK"]]

\* simulate_network_delay without the max(0, ...) clamp
simulate_network_delay_unclamped(active_profile, z) ==
  IF active_profile = None THEN 0
  ELSE profiles[active_profile].base_latency_ms
       + (profiles[active_profile].jitter_ms * z) \div 3

\* simulate_network_delay with the normalvariate(0, jitter/3) draw z sigmas
simulate_network_delay(active_profile, z) ==
  IF active_profile = None THEN 0
  ELSE LET base_latency == profiles[active_profile].base_latency_ms
           jitter == profiles[active_profile].jitter_ms
           actual_latency == base_latency + (jitter * z) \div 3
       IN  Max(0, actual_latency)

\* simulate_packet_loss comparing with <= instead of <
simulate_packet_loss_inclusive(active_profile, u) ==
  IF active_profile = None THEN FALSE
  ELSE u <= profiles[active_profile].packet_loss_rate

\* simulate_packet_loss with the random.random() draw u
simulate_packet_loss(active_profile, u) ==
  IF active_profile = None THEN FALSE
  ELSE u < profiles[active_profile].packet_loss_rate

\* simulate_bandwidth_limit with the normalvariate(1.0, 0.1) draw z sigmas:
\* data_size_bytes * 8 / (mbps * 1e6) seconds is data_size_bytes * 8 / mbps
\* microseconds, times the variability (10 + z) / 10
simulate_bandwidth_limit(active_profile, data_size_bytes, z) ==
  IF active_profile = None THEN 0
  ELSE LET mbps == profiles[active_profile].bandwidth_limit_mbps
       IN  Max(0, (data_size_bytes * 8 * (10 + z)) \div (mbps * 10))

\* simulate_real_request(request_func, *args, **kwargs): op is what
\* request_func does when called, u/zj/zb are the random draws
simulate_real_request(active_profile, op, args, u, zj, zb) ==
  IF active_profile = None
    THEN [NoWrap EXCEPT !.steps = <<Invoke>>, !.calls = <<Called(args, op)>>, !.args = args,
                        !.result = op]
  ELSE IF simulate_packet_loss(active_profile, u)
    THEN [NoWrap EXCEPT !.steps = <<LossDraw>>, !.args = args, !.loss_draw = u,
            !.result = Raise("ConnectionError", "NETWORK_SIM: Packet loss")]
  ELSE
    LET network_delay == simulate_network_delay(active_profile, zj)
        before == <<LossDraw>> \o
                  (IF network_delay > 0 THEN <<Sleep("sleep_network", network_delay)>>
                                        ELSE <<>>) \o <<Invoke>>
        exposes == op.kind = "return" /\ op.has_content
        bandwidth_delay == IF exposes
                             THEN simulate_bandwidth_limit(active_profile, op.size, zb)
                             ELSE 0
        after == IF exposes /\ bandwidth_delay > 0
                   THEN <<Sleep("sleep_bandwidth", bandwidth_delay)>> ELSE <<>>
    IN  [NoWrap EXCEPT !.steps = before \o after,
                       !.delays = [NoDelays EXCEPT !.net = network_delay,
                                                   !.bw = bandwidth_delay],
                       !.calls = <<Called(args, op)>>, !.args = args, !.loss_draw = u,
                       !.result = op]

\* NetworkSimulator.clear_simulation: the new active_profile
network_clear_simulation(active_profile) == None

(* -------------------------- ServerLoadSimulator ------------------------ *)

\* apply_load_profile
apply_load_profile(active_load, profile_name, now) ==
  IF profile_name \notin DOMAIN load_profiles
    THEN [exc |-> ValueError("Unknown load profile", profile_name),
          active_load |-> active_load, ret |-> NoActivation]
    ELSE [exc |-> NoExc,
          active_load |-> profile_name,
          ret |-> [load_applied |-> profile_name, timestamp |-> now,
                   config |-> load_profiles[profile_name]]]

\* simulate_server_processing falling back to the "light" profile when no
\* load profile is active
simulate_server_processing_default_load(active_load, zc, zi) ==
  LET load == IF active_load = None THEN "light" ELSE active_load
      actual_cpu_delay ==
        Max(0, (load_profiles[load].cpu_delay_ms * (10 + 2 * zc)) \div 10)
      actual_io_delay ==
        Max(0, (load_profiles[load].io_delay_ms * (10 + 5 * zi)) \div 10)
  IN  [steps |-> (IF actual_cpu_delay > 0
                    THEN <<Sleep("sleep_cpu", actual_cpu_delay)>> ELSE <<>>)
                 \o (IF actual_io_delay > 0
                    THEN <<Sleep("sleep_io", actual_io_delay)>> ELSE <<>>),
       cpu |-> actual_cpu_delay, io |-> actual_io_delay]

\* simulate_server_processing with the normalvariate(1.0, 0.2) draw zc and
\* the normalvariate(1.0, 0.5) draw zi: the delays computed and the sleeps made
simulate_server_processing(active_load, zc, zi) ==
  IF active_load = None THEN [steps |-> <<>>, cpu |-> 0, io |-> 0]
  ELSE LET cpu_delay == load_profiles[active_load].cpu_delay_ms
           actual_cpu_delay == Max(0, (cpu_delay * (10 + 2 * zc)) \div 10)
           io_delay == load_profiles[active_load].io_delay_ms
           actual_io_delay == Max(0, (io_delay * (10 + 5 * zi)) \div 10)
       IN  [steps |-> (IF actual_cpu_delay > 0
                         THEN <<Sleep("sleep_cpu", actual_cpu_delay)>> ELSE <<>>)
                      \o (IF actual_io_delay > 0
                         THEN <<Sleep("sleep_io", actual_io_delay)>> ELSE <<>>),
            cpu |-> actual_cpu_delay, io |-> actual_io_delay]

(* --------------------------- RealWorldSimulator ------------------------ *)

\* the fields a RealWorldSimulator holds (network_sim.active_profile,
\* server_sim.active_load, active_scenario) after __init__
SimInit == [active_profile |-> None, active_load |-> None, active_scenario |-> None]

\* the unknown-name check clearing the simulation before it raises
unknown_scenario_clears(st, scenario_name) ==
  [exc |-> ValueError("Unknown scenario", scenario_name), st |-> SimInit,
   ret |-> NoActivation]

\* apply_real_world_scenario, the branch `scenario_name not in self.scenarios`:
\* raise ValueError, nothing assigned
unknown_scenario(st, scenario_name) ==
  [exc |-> ValueError("Unknown scenario", scenario_name), st |-> st,
   ret |-> NoActivation]

\* apply_real_world_scenario applying the network profile only
apply_real_world_scenario_network_only(st, scenario_name, now) ==
  IF scenario_name \notin DOMAIN scenarios
    THEN unknown_scenario(st, scenario_name)
    ELSE
      LET scenario == scenarios[scenario_name]
          network_result ==
            apply_network_profile(st.active_profile, scenario.network_profile, now)
          server_result ==
            apply_load_profile(st.active_load, scenario.server_load, now)
      IN  [exc |-> NoExc,
           st |-> [st EXCEPT !.active_profile = network_result.active_profile,
                             !.active_scenario = scenario_name],
           ret |-> [scenario_applied |-> scenario_name, timestamp |-> now,
                    config |-> scenario,
                    network_simulation |-> network_result.ret,
                    server_simulation |-> server_result.ret,
                    simulation_mode |-> "REAL_WORLD"]]

\* apply_real_world_scenario: exception raised, fields afterwards, record returned
apply_real_world_scenario(st, scenario_name, now) ==
  IF scenario_name \notin DOMAIN scenarios
    THEN unknown_scenario(st, scenario_name)
    ELSE
      LET scenario == scenarios[scenario_name]
          network_result ==
            apply_network_profile(st.active_profile, scenario.network_profile, now)
          st1 == [st EXCEPT !.active_profile = network_result.active_profile]
          server_result ==
            apply_load_profile(st1.active_load, scenario.server_load, now)
          st2 == [st1 EXCEPT !.active_load = server_result.active_load]
      IN  IF network_result.exc # NoExc
            THEN [exc |-> network_result.exc, st |-> st1, ret |-> NoActivation]
          ELSE IF server_result.exc # NoExc
            THEN [exc |-> server_result.exc, st |-> st2, ret |-> NoActivation]
          ELSE [exc |-> NoExc,
                st |-> [st2 EXCEPT !.active_scenario = scenario_name],
                ret |-> [scenario_applied |-> scenario_name, timestamp |-> now,
                         config |-> scenario,
                         network_simulation |-> network_result.ret,
                         server_simulation |-> server_result.ret,
                         simulation_mode |-> "REAL_WORLD"]]

\* simulate_real_world_request with the server processing after the network wrap
simulate_real_world_request_network_first(st, op, args, zc, zi, u, zj, zb) ==
  LET server == simulate_server_processing(st.active_load, zc, zi)
      net == simulate_real_request(st.active_profile, op, args, u, zj, zb)
  IN  [net EXCEPT !.steps = @ \o server.steps,
                  !.delays.cpu = server.cpu, !.delays.io = server.io]

\* simulate_real_world_request: server processing first, then the network wrap
simulate_real_world_request(st, op, args, zc, zi, u, zj, zb) ==
  LET server == simulate_server_processing(st.active_load, zc, zi)
      net == simulate_real_request(st.active_profile, op, args, u, zj, zb)
  IN  [net EXCEPT !.steps = server.steps \o @,
                  !.delays.cpu = server.cpu, !.delays.io = server.io]

\* RealWorldSimulator.clear_simulation
clear_simulation(st) ==
  [st EXCEPT !.active_profile = network_clear_simulation(@),
             !.active_scenario = None]

(* -------------------------- RealChaosController ------------------------ *)

\* apply_scenario
apply_scenario(active, scenario_name, now) ==
  IF scenario_name \notin DOMAIN chaos_scenarios
    THEN [exc |-> ValueError("Unknown scenario", scenario_name),
          active_chaos |-> active, ret |-> NoActivation]
    ELSE [exc |-> NoExc, active_chaos |-> scenario_name,
          ret |-> [scenario_applied |-> scenario_name, timestamp |-> now,
                   config |-> chaos_scenarios[scenario_name],
                   chaos_mode |-> "REAL"]]

\* add_chaos_to_request(request_func, *args, **kwargs) with the draw u
add_chaos_to_request(active, op, args, u) ==
  IF active = None
    THEN [NoWrap EXCEPT !.steps = <<Invoke>>, !.calls = <<Called(args, op)>>, !.args = args,
                        !.result = op]
  ELSE
    LET delay == chaos_scenarios[active].delay_ms
        slept == IF delay > 0 THEN <<Sleep("sleep_delay", delay)>> ELSE <<>>
        base == [NoWrap EXCEPT !.args = args, !.loss_draw = u,
                               !.delays.net = IF delay > 0 THEN delay ELSE 0]
    IN  IF u < chaos_scenarios[active].error_rate
          THEN [base EXCEPT !.steps = slept \o <<LossDraw>>,
                  !.result = Raise("ConnectionError", "CHAOS: Simulated network error")]
          ELSE [base EXCEPT !.steps = slept \o <<LossDraw, Invoke>>,
                  !.calls = <<Called(args, op)>>, !.result = op]

\* clear_chaos: the new active_chaos
clear_chaos(active) == None

(* ------------------------------ load drivers --------------------------- *)

\* the test scripts: each imports one injector or, for load-test.py, none
\*   "real_network"  academic_test_suite_real_network.py (real_world_sim)
\*   "48h"           archived_files/academic_test_suite_48h.py (real_chaos)
\*   "load_test"     load-test.py
Suites == {"real_network", "48h", "load_test"}

\* str(e) of an exception raised by the wrapper or the operation
str(e) == e.msg

\* the keyword arguments an attempt hands to requests.post
PostArgs(timeout) == [json |-> "payload", timeout |-> timeout]

\* what an attempt gives its caller: the result dict it returns, or the
\* exception that escapes it; calls lists the arguments of every call of the
\* operation made for the attempt and exc_cls is the class of the exception
\* raised inside it, if any (neither is a key of the dict)
Returned(success, status_code, error, scenario, calls, exc_cls) ==
  [exc |-> NoExc,
   success |-> success, status_code |-> status_code, error |-> error,
   network_scenario |-> scenario, calls |-> calls, exc_cls |-> exc_cls]
Escaped(e, calls) ==
  [exc |-> [cls |-> e.cls, msg |-> e.msg, arg |-> None],
   success |-> FALSE, status_code |-> 0, error |-> None,
   network_scenario |-> None, calls |-> calls, exc_cls |-> e.cls]

\* the try/except of an attempt catching only ConnectionError
execute_real_network_request_narrow_except(st, op, timeout, zc, zi, u, zj, zb) ==
  LET w == simulate_real_world_request(st, op, PostArgs(timeout), zc, zi, u, zj, zb)
      calls == [i \in 1..Len(w.calls) |-> w.calls[i].args]
  IN  IF w.result.kind = "return"
        THEN Returned(w.result.status_code \in {200, 201}, w.result.status_code,
                      None, st.active_scenario, calls, None)
      ELSE IF w.result.cls = "ConnectionError"
        THEN Returned(FALSE, 0, str(w.result), st.active_scenario, calls, w.result.cls)
      ELSE Escaped(w.result, calls)

\* an attempt that calls the wrapper again after a timeout
execute_real_network_request_retries(st, op, timeout, zc, zi, u, zj, zb) ==
  LET w == simulate_real_world_request(st, op, PostArgs(timeout), zc, zi, u, zj, zb)
      calls == [i \in 1..Len(w.calls) |-> w.calls[i].args]
  IN  IF w.result.kind = "return"
        THEN Returned(w.result.status_code \in {200, 201}, w.result.status_code,
                      None, st.active_scenario, calls, None)
      ELSE IF w.result.cls = "Timeout"
        THEN Returned(FALSE, 0, str(w.result), st.active_scenario,
                      calls \o calls, w.result.cls)
      ELSE Returned(FALSE, 0, str(w.result), st.active_scenario, calls, w.result.cls)

\* RealNetworkTestSuite.execute_real_network_request(payload, timeout=60):
\* the wrap inside try, `except Exception` turning whatever is raised into a
\* failed result with error = str(e)
execute_real_network_request(st, op, timeout, zc, zi, u, zj, zb) ==
  LET w == simulate_real_world_request(st, op, PostArgs(timeout), zc, zi, u, zj, zb)
      calls == [i \in 1..Len(w.calls) |-> w.calls[i].args]
  IN  IF w.result.kind = "return"
        THEN Returned(w.result.status_code \in {200, 201}, w.result.status_code,
                      None, st.active_scenario, calls, None)
        ELSE Returned(FALSE, 0, str(w.result), st.active_scenario, calls, w.result.cls)

\* Academic48hTestSuite.execute_single_request(payload, timeout=30): the
\* success path reads response.status_code and len(response.content) inside
\* try; `except requests.exceptions.Timeout` tags 'timeout', `except
\* Exception` tags str(e)
execute_single_request(active, op, timeout, u) ==
  LET w == add_chaos_to_request(active, op, PostArgs(timeout), u)
      calls == [i \in 1..Len(w.calls) |-> w.calls[i].args]
  IN  IF w.result.kind = "return"
        THEN IF w.result.has_content
               THEN Returned(w.result.status_code \in {200, 201},
                             w.result.status_code, None, None, calls, None)
               ELSE Returned(FALSE, 0, "object has no attribute 'content'", None,
                             calls, "AttributeError")
      ELSE IF w.result.cls = "Timeout"
        THEN Returned(FALSE, 0, "timeout", None, calls, w.result.cls)
      ELSE Returned(FALSE, 0, str(w.result), None, calls, w.result.cls)

\* SagaLoadTester.create_order: requests.post called directly, timeout=30
create_order(op, timeout) ==
  IF op.kind = "return"
    THEN Returned(op.status_code = 200, op.status_code, None, None,
                  <<PostArgs(timeout)>>, None)
    ELSE Returned(FALSE, 0, str(op), None, <<PostArgs(timeout)>>, op.cls)

\* one worker thread per submitted request instead of max_workers threads
pool_size_per_request(max_workers, n) == n

\* ThreadPoolExecutor(max_workers=...): the threads that run submitted calls
pool_size(max_workers, n) == max_workers

\* the driver leaving the collection loop at the first result
pool_done_first_completed(futs, taken) == taken # {}

\* `for future in as_completed(futures)` / `for future in futures` is
\* exhausted: the result of every submitted future has been taken
pool_done(futs, taken) == taken = 1..Len(futs)

\* the timeout each suite's attempt passes to requests.post
attempt_timeout(s) == IF s = "real_network" THEN 60 ELSE 30

\* the number of results that are successes
successful_requests(results) ==
  Cardinality({i \in 1..Len(results) : results[i].success})

\* a future of the executor, before a worker has taken it
PendingFuture == [state |-> "pending", out |-> Escaped(Raise(None, None), <<>>)]

\* a future whose result the driver has taken: nothing reads it again, and
\* the model drops its copy of the result
TakenFuture == [state |-> "taken", out |-> PendingFuture.out]

NoSummary == [total_requests |-> -1, successful_requests |-> -1]

(* ------------------------------- state --------------------------------- *)

VARIABLES
  controller,       \* the injector this process imports: "sim" (network_simulator.
                    \* real_world_sim) or "chaos" (chaos_real.real_chaos)
  active_profile,   \* NetworkSimulator.active_profile: a key of profiles, or None
  active_load,      \* ServerLoadSimulator.active_load: a key of load_profiles, or None
  active_scenario,  \* RealWorldSimulator.active_scenario
  active_chaos,     \* RealChaosController.active_chaos: a key of its scenarios, or None
  clock,            \* datetime.now(), advanced by every successful apply
  phase,            \* per controller: "fresh", "applied" or "cleared" (last apply/clear)
  last_call,        \* the most recent call: controller, method, argument
  activation,       \* the record the most recent call returned, if it was an apply
  prev_activation,  \* the record the call before it returned, if that was an apply
  raised,           \* the exception the most recent apply raised, if any
  wrapped,          \* what the most recent call did and returned, if it was a wrap
  suite,            \* the test script that runs, or None when the injector is driven directly
  pc,               \* where the script is: "idle", "ready", a batch, "returned", "raised"
  config,           \* the running batch's num_requests and max_workers
  futures,          \* the futures submitted to the executor, in submission order
  yielded,          \* the futures whose result the driver has taken
  results,          \* the batch's local list `results`
  summary,          \* the dict the batch returned (its counts)
  driver_exc,       \* the exception that escaped the batch, if any
  batch_results,    \* the result dicts handed to an aggregation: success, duration_ms
  total_duration,   \* the elapsed seconds of the batch handed to an aggregation
  metric_data,      \* the metric name and the two groups handed to a comparison
  report,           \* what the most recent aggregation or comparison produced
  run               \* the scenario run of a harness: where it is and what it has done

injector_vars ==
  <<controller, active_profile, active_load, active_scenario, active_chaos, clock, phase,
    last_call, activation, prev_activation, raised, wrapped>>

driver_vars == <<suite, pc, config, futures, yielded, results, summary, driver_exc>>

analysis_vars == <<batch_results, total_duration, metric_data, report>>

harness_vars == <<run>>

sim == [active_profile |-> active_profile, active_load |-> active_load,
        active_scenario |-> active_scenario]

Call(ctl, op, arg) == [ctl |-> ctl, op |-> op, arg |-> arg]

InjectorInit ==
  /\ controller \in {"sim", "chaos"}
  /\ active_profile = SimInit.active_profile
  /\ active_load = SimInit.active_load
  /\ active_scenario = SimInit.active_scenario
  /\ active_chaos = None
  /\ clock = 0
  /\ phase = [sim |-> "fresh", chaos |-> "fresh"]
  /\ last_call = Call(None, None, None)
  /\ activation = NoActivation
  /\ prev_activation = NoActivation
  /\ raised = NoExc
  /\ wrapped = NoWrap

\* no test script runs: the injector is called directly
DriverOff ==
  /\ suite = None
  /\ pc = "idle"
  /\ config = [num_requests |-> 0, max_workers |-> 0]
  /\ futures = <<>>
  /\ yielded = {}
  /\ results = <<>>
  /\ summary = NoSummary
  /\ driver_exc = None

\* nothing has been aggregated or compared
NoMetricData == [metric_name |-> None, orchestrated |-> <<>>, choreographed |-> <<>>]
NoReport == [fn |-> None]

\* a scenario run: stage is where the harness function is, scenario_name its
\* argument, applied whether its apply returned, printed the tags of the
\* lines it printed about errors and clearing, error the 'error' key of its
\* result, clear how the clear it called ran (None: it called none), result
\* whether it returned its result dict and exc the exception that left it
NoRun ==
  [stage |-> "idle", scenario_name |-> None, applied |-> FALSE, printed |-> {},
   error |-> None, clear |-> None, result |-> FALSE, exc |-> None]

\* no harness runs a scenario
HarnessOff == run = NoRun

\* no aggregation or comparison runs
AnalysisOff ==
  /\ batch_results = <<>>
  /\ total_duration = 0
  /\ metric_data = NoMetricData
  /\ report = NoReport

(* ------------------------------ actions -------------------------------- *)

\* the draws a wrap makes: random is called only on the paths that use it
ServerDraws(load) == IF load = None THEN {0} ELSE ZDraws
NetworkLossDraws(profile) ==
  IF profile = None THEN {0} ELSE LossDraws(profiles[profile].packet_loss_rate)
NetworkDraws(profile) == IF profile = None THEN {0} ELSE ZDraws
BandwidthDraws(profile, op) ==
  IF profile # None /\ op.kind = "return" /\ op.has_content THEN ZDraws ELSE {0}
ChaosDraws(active) ==
  IF active = None THEN {0} ELSE LossDraws(chaos_scenarios[active].error_rate)

\* real_world_sim.apply_real_world_scenario(scenario_name)
ApplyCall(scenario_name) ==
    LET r == apply_real_world_scenario(sim, scenario_name, clock)
    IN  /\ controller = "sim"
        /\ clock < MaxClock
        /\ active_profile' = r.st.active_profile
        /\ active_load' = r.st.active_load
        /\ active_scenario' = r.st.active_scenario
        /\ activation' = r.ret
        /\ prev_activation' = activation
        /\ raised' = r.exc
        /\ clock' = IF r.exc = NoExc THEN clock + 1 ELSE clock
        /\ phase' = IF r.exc = NoExc THEN [phase EXCEPT !.sim = "applied"] ELSE phase
        /\ last_call' = Call("sim", "apply", scenario_name)
        /\ wrapped' = NoWrap
        /\ UNCHANGED <<active_chaos, controller>>

Apply ==
  \E scenario_name \in ScenarioArgs :
    ApplyCall(scenario_name) /\ suite = None /\ UNCHANGED <<driver_vars, analysis_vars, harness_vars>>

\* real_world_sim.clear_simulation()
Clear ==
  LET st == clear_simulation(sim)
  IN  /\ controller = "sim"
      /\ active_profile' = st.active_profile
      /\ active_load' = st.active_load
      /\ active_scenario' = st.active_scenario
      /\ phase' = [phase EXCEPT !.sim = "cleared"]
      /\ last_call' = Call("sim", "clear", None)
      /\ activation' = NoActivation
      /\ prev_activation' = NoActivation
      /\ raised' = NoExc
      /\ wrapped' = NoWrap
      /\ UNCHANGED <<active_chaos, clock, controller>>
      /\ UNCHANGED <<driver_vars, analysis_vars, harness_vars>>

\* a wrap that uses the scenario up: simulate_real_world_request followed by
\* self.active_scenario = None
WrapClearsScenario ==
  \E op \in OpBehaviours, args \in CallArgs,
     zc \in ServerDraws(active_load), zi \in ServerDraws(active_load),
     u \in NetworkLossDraws(active_profile), zj \in NetworkDraws(active_profile) :
    \E zb \in BandwidthDraws(active_profile, op) :
      /\ controller = "sim"
      /\ wrapped' = simulate_real_world_request(sim, op, args, zc, zi, u, zj, zb)
      /\ last_call' = Call("sim", "wrap", None)
      /\ activation' = NoActivation
      /\ prev_activation' = NoActivation
      /\ raised' = NoExc
      /\ active_scenario' = None
      /\ UNCHANGED <<active_profile, active_load, active_chaos, clock, phase, controller>>
      /\ UNCHANGED <<driver_vars, analysis_vars, harness_vars>>

\* real_world_sim.simulate_real_world_request(request_func, *args, **kwargs)
Wrap ==
  \E op \in OpBehaviours, args \in CallArgs,
     zc \in ServerDraws(active_load), zi \in ServerDraws(active_load),
     u \in NetworkLossDraws(active_profile), zj \in NetworkDraws(active_profile) :
    \E zb \in BandwidthDraws(active_profile, op) :
      /\ controller = "sim"
      /\ wrapped' = simulate_real_world_request(sim, op, args, zc, zi, u, zj, zb)
      /\ last_call' = Call("sim", "wrap", None)
      /\ activation' = NoActivation
      /\ prev_activation' = NoActivation
      /\ raised' = NoExc
      /\ UNCHANGED <<active_profile, active_load, active_scenario, active_chaos,
                     clock, phase, controller>>
      /\ UNCHANGED <<driver_vars, analysis_vars, harness_vars>>

\* real_chaos.apply_scenario(scenario_name)
ChaosApplyCall(scenario_name) ==
    LET r == apply_scenario(active_chaos, scenario_name, clock)
    IN  /\ controller = "chaos"
        /\ clock < MaxClock
        /\ active_chaos' = r.active_chaos
        /\ activation' = r.ret
        /\ prev_activation' = activation
        /\ raised' = r.exc
        /\ clock' = IF r.exc = NoExc THEN clock + 1 ELSE clock
        /\ phase' = IF r.exc = NoExc THEN [phase EXCEPT !.chaos = "applied"] ELSE phase
        /\ last_call' = Call("chaos", "apply", scenario_name)
        /\ wrapped' = NoWrap
        /\ UNCHANGED <<active_profile, active_load, active_scenario, controller>>

ChaosApply ==
  \E scenario_name \in ChaosArgs :
    ChaosApplyCall(scenario_name) /\ suite = None /\ UNCHANGED <<driver_vars, analysis_vars, harness_vars>>

\* real_chaos.clear_chaos()
ChaosClear ==
  /\ controller = "chaos"
  /\ active_chaos' = clear_chaos(active_chaos)
  /\ phase' = [phase EXCEPT !.chaos = "cleared"]
  /\ last_call' = Call("chaos", "clear", None)
  /\ activation' = NoActivation
  /\ prev_activation' = NoActivation
  /\ raised' = NoExc
  /\ wrapped' = NoWrap
  /\ UNCHANGED <<active_profile, active_load, active_scenario, clock, controller>>
  /\ UNCHANGED <<driver_vars, analysis_vars, harness_vars>>

\* real_chaos.add_chaos_to_request(request_func, *args, **kwargs)
ChaosWrap ==
  \E op \in OpBehaviours, args \in CallArgs, u \in ChaosDraws(active_chaos) :
      /\ controller = "chaos"
      /\ wrapped' = add_chaos_to_request(active_chaos, op, args, u)
      /\ last_call' = Call("chaos", "wrap", None)
      /\ activation' = NoActivation
      /\ prev_activation' = NoActivation
      /\ raised' = NoExc
      /\ UNCHANGED <<active_profile, active_load, active_scenario, active_chaos,
                     clock, phase, controller>>
      /\ UNCHANGED <<driver_vars, analysis_vars, harness_vars>>

vars == <<injector_vars, driver_vars, analysis_vars, harness_vars>>

Init == InjectorInit /\ DriverOff /\ AnalysisOff /\ HarnessOff

Next == Apply \/ Clear \/ Wrap \/ ChaosApply \/ ChaosClear \/ ChaosWrap

Spec == Init /\ [][Next]_vars

(* --------------------------- the load drivers -------------------------- *)

\* behaviours of the target during a batch: every behaviour of OpBehaviours,
\* except in the concurrent test, which schedules three requests per user:
\* there the target either succeeds or times out
DriverOps(batch) ==
  IF batch = "concurrent"
    THEN {Response(200, TRUE, 3750), Raise("Timeout", "Read timed out")}
    ELSE OpBehaviours

\* scenario names a harness applies before a batch
HarnessScenarios == {"enterprise_lan", "poor_connectivity"} \cup UnknownNames
HarnessChaosScenarios == {"baseline", "high_stress"} \cup UnknownNames

\* the arguments a batch is entered with: the number of requests it schedules
\* and the max_workers of its executor (0: it has none)
\*   run_real_network_load_test(scenario_name, num_requests)
\*   run_real_network_concurrent_test(scenario_name, concurrent_users):
\*       concurrent_users * 3 requests on concurrent_users threads
\*   optimized_load_test(scenario_name, num_requests) on
\*       self.config['concurrent_users'] threads
\*   run_load_test(num_requests, num_threads)
BatchArgs(batch) ==
  CASE batch = "load" ->
         {[num_requests |-> n, max_workers |-> 0] : n \in 0..MaxRequests}
    [] batch = "concurrent" ->
         {[num_requests |-> concurrent_users * 3, max_workers |-> concurrent_users] :
            concurrent_users \in 1..MaxUsers}
    [] batch = "optimized_load" ->
         [num_requests : 0..MaxRequests, max_workers : 1..MaxThreads]
    [] batch = "run_load_test" ->
         [num_requests : 0..MaxRequests, max_workers : 1..MaxThreads]

NoBatch == [num_requests |-> 0, max_workers |-> 0]

DriverInit ==
  /\ InjectorInit
  /\ suite \in Suites
  /\ controller = (IF suite = "48h" THEN "chaos" ELSE "sim")
  /\ pc = "idle"
  /\ config = NoBatch
  /\ futures = <<>>
  /\ yielded = {}
  /\ results = <<>>
  /\ summary = NoSummary
  /\ driver_exc = None
  /\ AnalysisOff
  /\ HarnessOff

\* the batches: pc while one runs
\*   "load"            RealNetworkTestSuite.run_real_network_load_test
\*   "concurrent"      RealNetworkTestSuite.run_real_network_concurrent_test
\*   "optimized_load"  Academic48hTestSuite.optimized_load_test
\*   "run_load_test"   SagaLoadTester.run_load_test
PoolBatches == {"concurrent", "optimized_load", "run_load_test"}

\* the number of attempts the running batch schedules
BatchSize == config.num_requests

\* max_workers of the running batch's ThreadPoolExecutor
MaxWorkers == config.max_workers

\* attempts a worker thread has started and not finished
InFlight == {i \in 1..Len(futures) : futures[i].state = "running"}

\* what one attempt of the running suite can come to, over the target's
\* behaviours and the injector's loss draws; the delays a wrap sleeps for do
\* not enter the result dict as modelled here, so the normal draws are taken
\* at their mean
AttemptOutcomes ==
  CASE suite = "real_network" ->
         {execute_real_network_request(sim, op, attempt_timeout(suite), z, z, u, z, z) :
            op \in DriverOps(pc), u \in NetworkLossDraws(active_profile), z \in {0}}
    [] suite = "48h" ->
         {execute_single_request(active_chaos, op, attempt_timeout(suite), u) :
            op \in DriverOps(pc), u \in ChaosDraws(active_chaos)}
    [] OTHER -> {create_order(op, attempt_timeout(suite)) : op \in DriverOps(pc)}

\* the harness applies a scenario: test_real_world_scenario (real_world_sim.
\* apply_real_world_scenario) or run_scenario_test_suite (real_chaos.apply_scenario);
\* the ValueError of an unknown name ends the script
HarnessApply ==
  /\ pc = "idle"
  /\ \/ suite = "real_network" /\ \E name \in HarnessScenarios : ApplyCall(name)
     \/ suite = "48h" /\ \E name \in HarnessChaosScenarios : ChaosApplyCall(name)
  /\ pc' = IF raised' = NoExc THEN "ready" ELSE "raised"
  /\ driver_exc' = IF raised' = NoExc THEN None ELSE raised'.cls
  /\ UNCHANGED <<analysis_vars, harness_vars, suite, config, futures, yielded, results, summary>>

\* a batch function is entered: its local results list and futures are empty
StartBatch ==
  /\ pc \in {"idle", "ready"}
  /\ pc' \in CASE suite = "real_network" -> {"load", "concurrent"}
               [] suite = "48h" -> {"optimized_load"}
               [] OTHER -> {"run_load_test"}
  /\ config' \in BatchArgs(pc')
  /\ results' = <<>> /\ futures' = <<>> /\ yielded' = {}
  /\ UNCHANGED <<analysis_vars, harness_vars, injector_vars, suite, summary, driver_exc>>

\* run_real_network_load_test, one iteration of `for i in range(num_requests)`:
\* execute_real_network_request, results.append
SequentialAttempt ==
  /\ pc = "load"
  /\ Len(results) < BatchSize
  /\ \E r \in AttemptOutcomes :
       IF r.exc = NoExc
         THEN results' = Append(results, r) /\ UNCHANGED <<pc, driver_exc>>
         ELSE pc' = "raised" /\ driver_exc' = r.exc.cls /\ UNCHANGED results
  /\ UNCHANGED <<analysis_vars, harness_vars, injector_vars, suite, config, futures, yielded, summary>>

\* run_real_network_load_test after the loop: the metrics and the return;
\* successful_requests / len(results) raises ZeroDivisionError on no results
SequentialReturn ==
  /\ pc = "load"
  /\ Len(results) = BatchSize
  /\ IF Len(results) = 0
       THEN pc' = "raised" /\ driver_exc' = "ZeroDivisionError" /\ UNCHANGED summary
       ELSE /\ pc' = "returned"
            /\ summary' = [total_requests |-> Len(results),
                           successful_requests |-> successful_requests(results)]
            /\ UNCHANGED driver_exc
  /\ UNCHANGED <<analysis_vars, harness_vars, injector_vars, suite, config, futures, yielded, results>>

\* executor.submit(...) in the list comprehension / loop that builds futures
Submit ==
  /\ pc \in PoolBatches
  /\ Len(futures) < BatchSize
  /\ futures' = Append(futures, PendingFuture)
  /\ UNCHANGED <<analysis_vars, harness_vars, injector_vars, suite, pc, config, yielded, results, summary, driver_exc>>

\* a pool thread takes the oldest queued call
WorkerStart ==
  /\ pc \in PoolBatches
  /\ Cardinality(InFlight) < pool_size(MaxWorkers, BatchSize)
  /\ \E i \in 1..Len(futures) :
       /\ futures[i].state = "pending"
       /\ \A j \in 1..(i - 1) : futures[j].state # "pending"
       /\ futures' = [futures EXCEPT ![i].state = "running"]
  /\ UNCHANGED <<analysis_vars, harness_vars, injector_vars, suite, pc, config, yielded, results, summary, driver_exc>>

\* the call a pool thread runs comes back: the future holds its result or
\* the exception that escaped it
WorkerFinish ==
  /\ pc \in PoolBatches
  /\ \E i \in InFlight, r \in AttemptOutcomes :
       futures' = [futures EXCEPT ![i] = [state |-> "finished", out |-> r]]
  /\ UNCHANGED <<analysis_vars, harness_vars, injector_vars, suite, pc, config, yielded, results, summary, driver_exc>>

\* the futures the driver may take next: as_completed(futures) yields any
\* finished one not yet yielded; run_load_test takes future.result() in
\* submission order
Collectable ==
  IF pc = "run_load_test"
    THEN {i \in 1..Len(futures) : i = Cardinality(yielded) + 1
                                   /\ futures[i].state = "finished"}
    ELSE {i \in 1..Len(futures) : i \notin yielded /\ futures[i].state = "finished"}

\* future.result() for the next future: appended to results; an exception
\* held by the future is re-raised (optimized_load_test catches it and
\* appends a failed result instead)
Collect ==
  /\ pc \in PoolBatches
  /\ Len(futures) = BatchSize
  /\ \E i \in Collectable :
       LET out == futures[i].out
       IN  /\ yielded' = yielded \cup {i}
           /\ futures' = [futures EXCEPT ![i] = TakenFuture]
           /\ IF out.exc = NoExc
                THEN results' = Append(results, out) /\ UNCHANGED <<pc, driver_exc>>
              ELSE IF pc = "optimized_load"
                THEN /\ results' = Append(results,
                           Returned(FALSE, 0, str(out.exc), None, out.calls, out.exc_cls))
                     /\ UNCHANGED <<pc, driver_exc>>
              ELSE pc' = "raised" /\ driver_exc' = out.exc.cls /\ UNCHANGED results
  /\ UNCHANGED <<analysis_vars, harness_vars, injector_vars, suite, config, summary>>

\* every future's result is taken: the executor is shut down, the metrics
\* computed and the batch returns; analyze_results (run_load_test) divides
\* by len(results)
PoolReturn ==
  /\ pc \in PoolBatches
  /\ Len(futures) = BatchSize
  /\ pool_done(futures, yielded)
  /\ IF pc = "run_load_test" /\ Len(results) = 0
       THEN pc' = "raised" /\ driver_exc' = "ZeroDivisionError" /\ UNCHANGED summary
       ELSE /\ pc' = "returned"
            /\ summary' = [total_requests |-> Len(results),
                           successful_requests |-> successful_requests(results)]
            /\ UNCHANGED driver_exc
  /\ UNCHANGED <<analysis_vars, harness_vars, injector_vars, suite, config, futures, yielded, results>>

DriverNext ==
  \/ HarnessApply \/ StartBatch
  \/ SequentialAttempt \/ SequentialReturn
  \/ Submit \/ WorkerStart \/ WorkerFinish \/ Collect \/ PoolReturn

DriverSpec == DriverInit /\ [][DriverNext]_vars

\* the driver's thread and the pool's threads keep running: a loop iteration,
\* a submit, a collection or a return that can be done is done, a queued call
\* is started when a thread is free, and every started call comes back (it
\* returns or raises, at the latest at its timeout)
DriverFairness ==
  /\ WF_vars(SequentialAttempt) /\ WF_vars(SequentialReturn)
  /\ WF_vars(Submit) /\ WF_vars(WorkerStart) /\ WF_vars(WorkerFinish)
  /\ WF_vars(Collect) /\ WF_vars(PoolReturn)

DriverLiveSpec == DriverInit /\ [][DriverNext]_vars /\ DriverFairness

(* ------------------------ the scenario harnesses ----------------------- *)

\* the scripts with a function that runs one scenario:
\*   "real_network"  RealNetworkTestSuite.test_real_world_scenario
\*   "optimized"     archived_files/academic_test_suite_optimized.py, test_scenario
\*   "48h"           Academic48hTestSuite.run_scenario_test_suite
HarnessSuites == {"real_network", "optimized", "48h"}

\* the injector each of them imports
harness_controller(s) == IF s = "real_network" THEN "sim" ELSE "chaos"

\* run_scenario_test_suite runs its test phases in a try block whose finally
\* clause clears; the other two call the phases and the clear in a row
clears_in_finally(s) == s = "48h"

\* the classes `except Exception` catches
IsException(cls) == cls # "KeyboardInterrupt"

\* what a test phase taken as a whole can raise: the division by
\* len(results) of a load test of no requests, or the interrupt of the
\* operator during one of its sleeps
PhaseExceptions == {"ZeroDivisionError", "KeyboardInterrupt"}

\* how a call of the clear can run: the only statements of it that can raise
\* are its prints (OSError on a closed stdout); clear_simulation has two,
\* one in NetworkSimulator.clear_simulation and one of its own
ClearRuns(ctl) ==
  IF ctl = "sim"
    THEN {"completes", "first_print_raises", "second_print_raises"}
    ELSE {"completes", "first_print_raises"}

\* RealWorldSimulator.clear_simulation as far as it gets: the first print
\* follows self.active_profile = None and precedes self.active_scenario = None
clear_simulation_run(st, how) ==
  IF how = "first_print_raises"
    THEN [st EXCEPT !.active_profile = None]
    ELSE clear_simulation(st)

\* test_real_world_scenario / test_scenario from the clear on:
\*   try: clear(); print("[CLEAN] ...")
\*   except: pass
\*   return scenario_result
clear_then_return(r, how) ==
  [r EXCEPT !.stage = "left", !.clear = how, !.result = TRUE,
            !.printed = IF how = "completes" THEN @ \cup {"[CLEAN]"} ELSE @]

\* run_scenario_test_suite from the end of its try block on: exc is what the
\* phases raised, or None
\*   except Exception as e: print("[ERROR] ..."); scenario_results['error'] = str(e)
\*   finally: print("[CLEAN] ..."); clear_chaos(); time.sleep(10)
\*   return scenario_results
except_finally_return(r, exc, how) ==
  LET caught == exc # None /\ IsException(exc)
      handled == IF caught
                   THEN [r EXCEPT !.error = exc, !.printed = @ \cup {"[ERROR]"}]
                   ELSE r
      cleared == [handled EXCEPT !.stage = "left", !.clear = how,
                                 !.printed = @ \cup {"[CLEAN]"}]
  IN  IF how # "completes" THEN [cleared EXCEPT !.exc = "OSError"]
      ELSE IF exc # None /\ ~caught THEN [cleared EXCEPT !.exc = exc]
      ELSE [cleared EXCEPT !.result = TRUE]

HarnessInit ==
  /\ InjectorInit
  /\ suite \in HarnessSuites
  /\ controller = harness_controller(suite)
  /\ pc = "idle"
  /\ config = NoBatch
  /\ futures = <<>>
  /\ yielded = {}
  /\ results = <<>>
  /\ summary = NoSummary
  /\ driver_exc = None
  /\ AnalysisOff
  /\ HarnessOff

\* the harness function is entered and applies its scenario; the ValueError
\* of an unknown name leaves the function
RunApply ==
  /\ run.stage = "idle"
  /\ \/ controller = "sim" /\ \E name \in HarnessScenarios : ApplyCall(name)
     \/ controller = "chaos" /\ \E name \in HarnessChaosScenarios : ChaosApplyCall(name)
  /\ run' = IF raised' = NoExc
              THEN [run EXCEPT !.stage = "applied", !.applied = TRUE,
                               !.scenario_name = last_call'.arg]
              ELSE [run EXCEPT !.stage = "left", !.exc = raised'.cls,
                               !.scenario_name = last_call'.arg]
  /\ UNCHANGED <<analysis_vars, driver_vars>>

\* time.sleep(15) / time.sleep(10) / time.sleep(30) after the apply
Stabilize ==
  /\ run.stage = "applied"
  /\ run' = [run EXCEPT !.stage = "stabilized"]
  /\ UNCHANGED <<analysis_vars, injector_vars, driver_vars>>

\* test_real_world_scenario calls run_real_network_load_test(scenario_name,
\* self.config['load_test_requests'])
LoadPhase ==
  /\ run.stage = "stabilized"
  /\ suite = "real_network"
  /\ run' = [run EXCEPT !.stage = "load_test"]
  /\ pc' = "load"
  /\ config' \in BatchArgs("load")
  /\ results' = <<>> /\ futures' = <<>> /\ yielded' = {}
  /\ UNCHANGED <<analysis_vars, injector_vars, suite, summary, driver_exc>>

\* the load test has returned: test_real_world_scenario calls
\* run_real_network_concurrent_test(scenario_name, self.config['concurrent_users']);
\* the dict the load test returned stays in load_test_result, which only the
\* aggregate metrics read, and summary is again the running batch's
ConcurrentPhase ==
  /\ run.stage = "load_test"
  /\ pc = "returned"
  /\ run' = [run EXCEPT !.stage = "concurrent_test"]
  /\ pc' = "concurrent"
  /\ config' \in BatchArgs("concurrent")
  /\ results' = <<>> /\ futures' = <<>> /\ yielded' = {}
  /\ summary' = NoSummary
  /\ UNCHANGED <<analysis_vars, injector_vars, suite, driver_exc>>

\* test_scenario and run_scenario_test_suite run their load, concurrent and
\* resilience tests, taken as a whole: they return or one of them raises
TestPhases ==
  /\ run.stage = "stabilized"
  /\ suite # "real_network"
  /\ run' = [run EXCEPT !.stage = "tests"]
  /\ \/ pc' = "returned" /\ UNCHANGED driver_exc
     \/ pc' = "raised" /\ driver_exc' \in PhaseExceptions
  /\ UNCHANGED <<analysis_vars, injector_vars, suite, config, futures, yielded, results, summary>>

\* the clear a harness calls, run as far as `how` says
ClearCall(how) ==
  /\ IF controller = "sim"
       THEN LET st == clear_simulation_run(sim, how)
            IN  /\ active_profile' = st.active_profile
                /\ active_load' = st.active_load
                /\ active_scenario' = st.active_scenario
                /\ UNCHANGED active_chaos
       ELSE /\ active_chaos' = clear_chaos(active_chaos)
            /\ UNCHANGED <<active_profile, active_load, active_scenario>>
  /\ phase' = [phase EXCEPT ![controller] = "cleared"]
  /\ last_call' = Call(controller, "clear", None)
  /\ activation' = NoActivation
  /\ prev_activation' = NoActivation
  /\ raised' = NoExc
  /\ wrapped' = NoWrap
  /\ UNCHANGED <<clock, controller>>

\* test_real_world_scenario / test_scenario after the last phase returned:
\* the aggregate metrics, the clear inside try/except and the return
Teardown ==
  /\ run.stage \in {"concurrent_test", "tests"}
  /\ ~clears_in_finally(suite)
  /\ pc = "returned"
  /\ \E how \in ClearRuns(controller) :
       ClearCall(how) /\ run' = clear_then_return(run, how)
  /\ UNCHANGED <<analysis_vars, driver_vars>>

\* test_real_world_scenario / test_scenario when a phase raises: nothing
\* catches it, the exception leaves the function
PhaseRaised ==
  /\ run.stage \in {"load_test", "concurrent_test", "tests"}
  /\ ~clears_in_finally(suite)
  /\ pc = "raised"
  /\ run' = [run EXCEPT !.stage = "left", !.exc = driver_exc]
  /\ UNCHANGED <<analysis_vars, injector_vars, driver_vars>>

\* run_scenario_test_suite after its phases returned or raised: the except
\* clause, the finally clause with the clear, and the return
TeardownFinally ==
  /\ run.stage = "tests"
  /\ clears_in_finally(suite)
  /\ pc \in {"returned", "raised"}
  /\ \E how \in ClearRuns(controller) :
       /\ ClearCall(how)
       /\ run' = except_finally_return(run, IF pc = "raised" THEN driver_exc ELSE None, how)
  /\ UNCHANGED <<analysis_vars, driver_vars>>

HarnessNext ==
  \/ RunApply \/ Stabilize \/ LoadPhase \/ ConcurrentPhase \/ TestPhases
  \/ SequentialAttempt \/ SequentialReturn
  \/ Submit \/ WorkerStart \/ WorkerFinish \/ Collect \/ PoolReturn
  \/ Teardown \/ PhaseRaised \/ TeardownFinally

HarnessSpec == HarnessInit /\ [][HarnessNext]_vars

(* ------------------------- MetricsAggregator --------------------------- *)
\* Numbers a summary holds are kept exact: a quotient is a fraction in lowest
\* terms, a standard deviation is the square root of such a fraction.

RECURSIVE GCD(_, _)
GCD(a, b) == IF b = 0 THEN a ELSE GCD(b, a % b)

\* the quotient a / b of two non-negative integers, b > 0
Frac(a, b) == [num |-> a \div GCD(a, b), den |-> b \div GCD(a, b)]

Sqrt(x) == [sqrt_of |-> x]

RECURSIVE Sum(_)
Sum(xs) == IF xs = <<>> THEN 0 ELSE Head(xs) + Sum(Tail(xs))

RECURSIVE SumSq(_)
SumSq(xs) == IF xs = <<>> THEN 0 ELSE Head(xs) * Head(xs) + SumSq(Tail(xs))

RECURSIVE insort(_, _)
insort(x, xs) ==
  IF xs = <<>> THEN <<x>>
  ELSE IF x <= Head(xs) THEN <<x>> \o xs
  ELSE <<Head(xs)>> \o insort(x, Tail(xs))

\* sorted(data): ascending
RECURSIVE sorted(_)
sorted(xs) == IF xs = <<>> THEN <<>> ELSE insort(Head(xs), sorted(Tail(xs)))

\* statistics.mean, statistics.median, statistics.stdev, min, max of a
\* non-empty list
mean(xs) == Frac(Sum(xs), Len(xs))
median_unsorted(xs) ==
  LET n == Len(xs)
  IN  IF n % 2 = 1 THEN Frac(xs[(n + 1) \div 2], 1)
      ELSE Frac(xs[n \div 2] + xs[n \div 2 + 1], 2)
median(xs) ==
  LET v == sorted(xs)
      n == Len(xs)
  IN  IF n % 2 = 1 THEN Frac(v[(n + 1) \div 2], 1)
      ELSE Frac(v[n \div 2] + v[n \div 2 + 1], 2)
stdev(xs) ==
  LET n == Len(xs)
  IN  Sqrt(Frac(n * SumSq(xs) - Sum(xs) * Sum(xs), n * (n - 1)))
min(xs) == Frac(sorted(xs)[1], 1)
max(xs) == Frac(sorted(xs)[Len(xs)], 1)

\* [r[key] for r in results if r['success']] and [r[key] for r in results]
RECURSIVE successful(_)
successful(rs) ==
  IF rs = <<>> THEN <<>>
  ELSE (IF Head(rs).success THEN <<Head(rs)>> ELSE <<>>) \o successful(Tail(rs))
duration_ms(rs) == [i \in 1..Len(rs) |-> rs[i].duration_ms]

\* the percentile that reads the data in the order given
percentile_unsorted(data, percent) ==
  IF data = <<>> THEN Frac(0, 1)
  ELSE LET n == Len(data)
           k100 == (n - 1) * percent
           f == k100 \div 100
           c == f + 1
       IN  IF c >= n THEN Frac(data[n], 1)
           ELSE Frac(data[f + 1] * (100 * c - k100) + data[c + 1] * (k100 - 100 * f), 100)

\* SimplifiedSagaTestSuite.percentile(data, percent): k = (n - 1) * percent /
\* 100 is kept as the integer k100 = 100 * k, f = int(k), and Python's
\* 0-based data_sorted[f], data_sorted[c] are v[f + 1], v[c + 1]
percentile(data, percent) ==
  IF data = <<>> THEN Frac(0, 1)
  ELSE LET data_sorted == sorted(data)
           n == Len(data_sorted)
           k100 == (n - 1) * percent
           f == k100 \div 100
           c == f + 1
       IN  IF c >= n THEN Frac(data_sorted[n], 1)
           ELSE Frac(data_sorted[f + 1] * (100 * c - k100)
                       + data_sorted[c + 1] * (k100 - 100 * f), 100)

\* numpy.percentile(a, q) with its default method, linear interpolation
\* between the order statistics around position (n - 1) * q / 100
np_percentile(a, q) ==
  LET v == sorted(a)
      n == Len(v)
      lo == ((n - 1) * q) \div 100
      rem == ((n - 1) * q) % 100
  IN  IF rem = 0 THEN Frac(v[lo + 1], 1)
      ELSE Frac(v[lo + 1] * (100 - rem) + v[lo + 2] * rem, 100)

\* sorted(durations)[int(len(durations) * 0.95)] of analyze_results
p95_nearest_rank(durations) ==
  Frac(sorted(durations)[(Len(durations) * 95) \div 100 + 1], 1)

\* the 'latency_stats' dict of run_real_network_load_test and optimized_load_test
latency_stats(latencies) ==
  [mean_ms |-> mean(latencies),
   median_ms |-> median(latencies),
   std_dev_ms |-> IF Len(latencies) > 1 THEN stdev(latencies) ELSE Sqrt(Frac(0, 1)),
   min_ms |-> min(latencies),
   max_ms |-> max(latencies),
   p95_ms |-> np_percentile(latencies, 95),
   p99_ms |-> np_percentile(latencies, 99)]

\* a key the dict does not have
Absent == [absent |-> TRUE]

\* the metrics of run_real_network_load_test, lines 139-163: the success
\* rate over len(results), latencies of all results, throughput over
\* len(results)
run_real_network_load_test_metrics(rs, elapsed_s) ==
  IF Len(rs) = 0 THEN [fn |-> "run_real_network_load_test", exc |-> "ZeroDivisionError"]
  ELSE LET latencies == duration_ms(rs)
       IN  [fn |-> "run_real_network_load_test", exc |-> None,
            total_requests |-> Len(rs),
            successful_requests |-> successful_requests(rs),
            success_rate |-> Frac(successful_requests(rs), Len(rs)),
            throughput_req_s |-> Frac(Len(rs), elapsed_s),
            latency_stats |-> latency_stats(latencies)]

\* SagaLoadTester.analyze_results: what it computes before printing; the
\* success rate is a percentage
analyze_results(rs, elapsed_s) ==
  LET durations == duration_ms(successful(rs))
      stats == IF durations # <<>>
                 THEN [avg_duration |-> mean(durations),
                       median_duration |-> median(durations),
                       p95_duration |-> p95_nearest_rank(durations)]
                 ELSE [avg_duration |-> Frac(0, 1), median_duration |-> Frac(0, 1),
                       p95_duration |-> Frac(0, 1)]
      throughput == IF elapsed_s > 0
                      THEN Frac(Len(successful(rs)), elapsed_s)
                      ELSE Frac(0, 1)
  IN  IF Len(rs) = 0 THEN [fn |-> "analyze_results", exc |-> "ZeroDivisionError"]
      ELSE [fn |-> "analyze_results", exc |-> None,
            total_requests |-> Len(rs),
            successful_requests |-> Len(successful(rs)),
            success_rate |-> Frac(Len(successful(rs)) * 100, Len(rs)),
            throughput_req_s |-> throughput,
            latency_stats |-> stats]

\* the metrics of optimized_load_test, lines 149-182, for the results of
\* num_requests requests; with no successful request the dict has neither
\* latency_stats nor throughput_req_s
optimized_load_test_metrics(rs, num_requests, elapsed_s) ==
  LET durations == duration_ms(successful(rs))
  IN  IF durations # <<>>
        THEN [fn |-> "optimized_load_test", exc |-> None,
              total_requests |-> num_requests,
              successful_requests |-> Len(successful(rs)),
              success_rate |-> Frac(Len(successful(rs)), num_requests),
              throughput_req_s |-> Frac(Len(successful(rs)), elapsed_s),
              latency_stats |-> latency_stats(durations)]
        ELSE [fn |-> "optimized_load_test", exc |-> None,
              total_requests |-> num_requests,
              successful_requests |-> 0,
              success_rate |-> Frac(0, 1),
              throughput_req_s |-> Absent,
              latency_stats |-> Absent]

\* the sequences over S of length at most n
SeqsUpTo(S, n) == UNION {[1..k -> S] : k \in 0..n}

\* result dicts handed to an aggregation: a success flag and a duration
ResultDicts == [success : BOOLEAN, duration_ms : {10, 30}]
BatchInputs == SeqsUpTo(ResultDicts, MaxBatch)
ElapsedSeconds == 0..MaxElapsed

\* data and percents handed to percentile
PercentileData == SeqsUpTo({10, 20, 30, 40}, MaxData)
Percents == {0, 25, 50, 95, 99, 100}

(* ------------------------ StatisticalComparator ------------------------ *)
\* p-values are per mille. What scipy's tests return for given samples is
\* not modelled: each test's p-value is a draw, on either side of alpha, and a
\* test may raise (p = -1).

\* self.alpha, significance_level=0.05
alpha == 50

Abs(x) == IF x < 0 THEN 0 - x ELSE x
Sign(x) == IF x < 0 THEN 0 - 1 ELSE IF x > 0 THEN 1 ELSE 0

\* n * sum of squares - (sum)^2: n * (n - 1) times the sample variance
Scatter(xs) == Len(xs) * SumSq(xs) - Sum(xs) * Sum(xs)

\* mean(a) - mean(b) times Len(a) * Len(b)
MeanDiff(a, b) == Sum(a) * Len(b) - Sum(b) * Len(a)

\* pooled_std ** 2 times n1 * n2 * (n1 + n2 - 2)
PooledScatter(a, b) == Scatter(a) * Len(b) + Scatter(b) * Len(a)

\* a value of Cohen's d: finite (its sign and its square), or what numpy
\* gives for a division by 0.0: nan for 0 / 0, inf otherwise
Finite(sign, sq) == [kind |-> "finite", sign |-> sign, sq |-> sq]
NotFinite(kind, sign) == [kind |-> kind, sign |-> sign, sq |-> Frac(0, 1)]

\* (mean1 - mean2) / pooled_std, pooled_std > 0
CohensQuotient(a, b) ==
  Finite(Sign(MeanDiff(a, b)),
         Frac(MeanDiff(a, b) * MeanDiff(a, b) * (Len(a) + Len(b) - 2),
              Len(a) * Len(b) * PooledScatter(a, b)))

\* calculate_cohens_d with the zero pooled deviation guarded
calculate_cohens_d_guarded(group1, group2) ==
  IF PooledScatter(group1, group2) = 0 THEN Finite(0, Frac(0, 1))
  ELSE CohensQuotient(group1, group2)

\* StatisticalAnalyzer.calculate_cohens_d: pooled_std is a numpy float, and
\* dividing by it when it is 0.0 gives nan or inf with a warning, no exception
calculate_cohens_d(group1, group2) ==
  IF PooledScatter(group1, group2) = 0
    THEN IF MeanDiff(group1, group2) = 0 THEN NotFinite("nan", 0)
         ELSE NotFinite("inf", Sign(MeanDiff(group1, group2)))
  ELSE CohensQuotient(group1, group2)

\* interpret_effect_size comparing cohens_d itself, not abs(cohens_d)
interpret_effect_size_signed(cohens_d) ==
  IF cohens_d.kind # "finite" THEN "large"
  ELSE IF cohens_d.sign < 0 THEN "negligible"
  ELSE IF 100 * cohens_d.sq.num < 4 * cohens_d.sq.den THEN "negligible"
  ELSE IF 100 * cohens_d.sq.num < 25 * cohens_d.sq.den THEN "small"
  ELSE IF 100 * cohens_d.sq.num < 64 * cohens_d.sq.den THEN "medium"
  ELSE "large"

\* StatisticalAnalyzer.interpret_effect_size: abs_d < 0.2, 0.5, 0.8 compared
\* on the squares; every comparison with nan is false
interpret_effect_size(cohens_d) ==
  IF cohens_d.kind # "finite" THEN "large"
  ELSE IF 100 * cohens_d.sq.num < 4 * cohens_d.sq.den THEN "negligible"
  ELSE IF 100 * cohens_d.sq.num < 25 * cohens_d.sq.den THEN "small"
  ELSE IF 100 * cohens_d.sq.num < 64 * cohens_d.sq.den THEN "medium"
  ELSE "large"

\* test_normality(data, data_name) given the Shapiro-Wilk draw p
test_normality(data, p) ==
  IF Len(data) < 3 THEN [test |-> "insufficient_data", is_normal |-> FALSE, ran |-> <<>>]
  ELSE IF p = 0 - 1 THEN [test |-> "error", is_normal |-> FALSE, ran |-> <<"shapiro">>]
  ELSE [test |-> "shapiro_wilk", is_normal |-> p > alpha, ran |-> <<"shapiro">>]

\* the 'error': 'insufficient_data' entry of compare_metrics
insufficient_data(impl, metric_name, orch_data, choreo_data) ==
  [fn |-> "compare_metrics", impl |-> impl, exc |-> None, metric |-> metric_name,
   error |-> "insufficient_data",
   orchestrated_samples |-> Len(orch_data), choreographed_samples |-> Len(choreo_data),
   tests_run |-> <<>>, normality_tests |-> Absent, statistical_test |-> Absent,
   effect_size |-> Absent, confidence_interval |-> Absent,
   performance_analysis |-> Absent]

\* abs(orch_mean - choreo_mean) / min(orch_mean, choreo_mean) * 100
improvement_over_min(orch_data, choreo_data) ==
  Frac(100 * Abs(MeanDiff(orch_data, choreo_data)),
       IF MeanDiff(orch_data, choreo_data) < 0 THEN Sum(orch_data) * Len(choreo_data)
       ELSE Sum(choreo_data) * Len(orch_data))

\* abs(orch_mean - choreo_mean) / max(orch_mean, choreo_mean) * 100
improvement_over_max(orch_data, choreo_data) ==
  Frac(100 * Abs(MeanDiff(orch_data, choreo_data)),
       IF MeanDiff(orch_data, choreo_data) > 0 THEN Sum(orch_data) * Len(choreo_data)
       ELSE Sum(choreo_data) * Len(orch_data))

LatencyMetrics == {"latencies", "p95_latencies"}

\* the "Performance winner" part of compare_metrics with max in both branches
performance_analysis_max(metric_name, orch_data, choreo_data, significant) ==
  [winner |-> IF metric_name \in LatencyMetrics
                THEN (IF MeanDiff(orch_data, choreo_data) < 0 THEN "orchestrated"
                      ELSE "choreographed")
                ELSE (IF MeanDiff(orch_data, choreo_data) > 0 THEN "orchestrated"
                      ELSE "choreographed"),
   improvement_percent |-> improvement_over_max(orch_data, choreo_data),
   statistically_significant |-> significant]

\* StatisticalAnalyzer.compare_metrics, lines 233-250: lower mean wins for
\* the latency metrics, over max; higher mean wins for the others, over min
performance_analysis(metric_name, orch_data, choreo_data, significant) ==
  IF metric_name \in LatencyMetrics
    THEN [winner |-> IF MeanDiff(orch_data, choreo_data) < 0 THEN "orchestrated"
                     ELSE "choreographed",
          improvement_percent |-> improvement_over_max(orch_data, choreo_data),
          statistically_significant |-> significant]
    ELSE [winner |-> IF MeanDiff(orch_data, choreo_data) > 0 THEN "orchestrated"
                     ELSE "choreographed",
          improvement_percent |-> improvement_over_min(orch_data, choreo_data),
          statistically_significant |-> significant]

\* a comparison that ran its tests
comparison(impl, metric_name, orch_data, choreo_data, tests_run, normality_tests, statistical_test, effect_size, confidence_interval, perf) ==
  [fn |-> "compare_metrics", impl |-> impl, exc |-> None, metric |-> metric_name,
   error |-> None,
   orchestrated_samples |-> Len(orch_data), choreographed_samples |-> Len(choreo_data),
   tests_run |-> tests_run, normality_tests |-> normality_tests,
   statistical_test |-> statistical_test, effect_size |-> effect_size,
   confidence_interval |-> confidence_interval, performance_analysis |-> perf]

\* comparison.get('statistical_test', {}).get('significant', False)
significant_of(statistical_test) ==
  IF statistical_test.test = "error" THEN FALSE ELSE statistical_test.significant

\* StatisticalAnalyzer.confidence_interval_difference inside its try: Welch's
\* df divides 0 by 0 (ZeroDivisionError, caught) when both variances are 0
confidence_interval_difference(group1, group2) ==
  IF Scatter(group1) = 0 /\ Scatter(group2) = 0 THEN [error |-> "ZeroDivisionError"]
  ELSE [confidence_level |-> 95]

\* StatisticalAnalyzer.compare_metrics. lib holds what the library calls
\* return: the p-value of each test, -1 when the call raises.
compare_metrics(orch_data, choreo_data, metric_name, lib) ==
  IF Len(orch_data) < 3 \/ Len(choreo_data) < 3
    THEN insufficient_data("archived", metric_name, orch_data, choreo_data)
  ELSE
    LET orch_normality == test_normality(orch_data, lib.shapiro_orch)
        choreo_normality == test_normality(choreo_data, lib.shapiro_choreo)
        both_normal == orch_normality.is_normal /\ choreo_normality.is_normal
        levene_ok == both_normal /\ lib.levene_p # 0 - 1
        ttest_ok == levene_ok /\ lib.ttest_p # 0 - 1
        equal_var == lib.levene_p > alpha
        tests_run == orch_normality.ran \o choreo_normality.ran
                     \o (IF both_normal THEN <<"levene">> ELSE <<>>)
                     \o (IF levene_ok THEN <<"ttest_ind">> ELSE <<>>)
                     \o (IF ttest_ok THEN <<>> ELSE <<"mannwhitneyu">>)
        statistical_test ==
          IF ttest_ok
            THEN [test |-> IF equal_var THEN "Independent t-test (equal_var=True)"
                           ELSE "Independent t-test (equal_var=False)",
                  significant |-> lib.ttest_p < alpha,
                  levene_test |-> [p_value |-> lib.levene_p]]
          ELSE IF lib.mwu_p # 0 - 1
            THEN [test |-> "Mann-Whitney U test", significant |-> lib.mwu_p < alpha,
                  levene_test |-> Absent]
          ELSE [test |-> "error", levene_test |-> Absent]
        cohens_d == calculate_cohens_d(orch_data, choreo_data)
    IN comparison("archived", metric_name, orch_data, choreo_data, tests_run,
                  [orchestrated |-> orch_normality.is_normal,
                   choreographed |-> choreo_normality.is_normal],
                  statistical_test,
                  [cohens_d |-> cohens_d,
                   interpretation |-> interpret_effect_size(cohens_d)],
                  confidence_interval_difference(orch_data, choreo_data),
                  performance_analysis(metric_name, orch_data, choreo_data,
                                       significant_of(statistical_test)))

\* an exception of a library call that compare_metrics does not catch
compare_raises(impl, metric_name, tests_run) ==
  [fn |-> "compare_metrics", impl |-> impl, exc |-> "Exception", metric |-> metric_name,
   tests_run |-> tests_run]

\* OptimizedStatisticalAnalyzer.compare_metrics: the t-test is called with its
\* default equal_var and no test of the variances; neither test is in a try
compare_metrics_optimized(orch_data, choreo_data, metric_name, lib) ==
  IF Len(orch_data) < 3 \/ Len(choreo_data) < 3
    THEN insufficient_data("optimized", metric_name, orch_data, choreo_data)
  ELSE
    LET orch_normality == test_normality(orch_data, lib.shapiro_orch)
        choreo_normality == test_normality(choreo_data, lib.shapiro_choreo)
        both_normal == orch_normality.is_normal /\ choreo_normality.is_normal
        tests_run == orch_normality.ran \o choreo_normality.ran
                     \o (IF both_normal THEN <<"ttest_ind">> ELSE <<"mannwhitneyu">>)
        p_value == IF both_normal THEN lib.ttest_p ELSE lib.mwu_p
        statistical_test ==
          [test |-> IF both_normal THEN "Independent t-test" ELSE "Mann-Whitney U test",
           significant |-> p_value < alpha,
           levene_test |-> Absent]
    IN IF p_value = 0 - 1 THEN compare_raises("optimized", metric_name, tests_run)
       ELSE comparison("optimized", metric_name, orch_data, choreo_data, tests_run,
                  [orchestrated |-> orch_normality.is_normal,
                   choreographed |-> choreo_normality.is_normal],
                  statistical_test,
                  [cohens_d |-> calculate_cohens_d_guarded(orch_data, choreo_data),
                   interpretation |-> "absent"],
                  Absent,
                  performance_analysis_max(metric_name, orch_data, choreo_data,
                                           statistical_test.significant))

metrics_to_compare == <<"latencies", "throughputs", "success_rates", "p95_latencies">>

Range(f) == {f[x] : x \in DOMAIN f}

\* StatisticalAnalyzer.generate_summary over self.results['comparisons']
generate_summary(comparisons) ==
  LET analysed == {m \in DOMAIN comparisons : comparisons[m].performance_analysis # Absent}
      won(pattern) == {m \in analysed : comparisons[m].performance_analysis.winner = pattern}
      significant == {m \in analysed :
                        comparisons[m].performance_analysis.statistically_significant}
      significant_wins == [pattern \in {"orchestrated", "choreographed"} |->
                             Cardinality(won(pattern) \cap significant)]
  IN [overall_winner |->
        [pattern |-> IF significant_wins["orchestrated"] > significant_wins["choreographed"]
                       THEN "orchestrated"
                     ELSE IF significant_wins["choreographed"] > significant_wins["orchestrated"]
                       THEN "choreographed"
                     ELSE "tie",
         significant_wins |-> significant_wins,
         total_wins |-> [pattern \in {"orchestrated", "choreographed"} |->
                           Cardinality(won(pattern))]],
      significant_differences |-> significant,
      effect_sizes |-> {m \in DOMAIN comparisons : comparisons[m].effect_size # Absent}]

\* StatisticalAnalyzer.run_complete_analysis on the extracted metrics: a metric
\* is compared only when both of its lists are non-empty (line 344)
run_complete_analysis(orch_metrics, choreo_metrics, lib) ==
  LET compared == {m \in Range(metrics_to_compare) :
                     orch_metrics[m] # <<>> /\ choreo_metrics[m] # <<>>}
      comparisons == [m \in compared |->
                        compare_metrics(orch_metrics[m], choreo_metrics[m], m, lib)]
  IN [fn |-> "run_complete_analysis", impl |-> "archived", exc |-> None,
      comparisons |-> comparisons,
      summary |-> generate_summary(comparisons)]

\* OptimizedStatisticalAnalyzer.generate_summary over
\* self.results['comparisons']: an entry without performance_analysis counts
\* as winner 'tie', which scores for nobody
generate_summary_optimized(comparisons) ==
  LET analysed == {m \in DOMAIN comparisons : comparisons[m].performance_analysis # Absent}
      significant == {m \in analysed :
                        comparisons[m].performance_analysis.statistically_significant}
      won(pattern) == {m \in analysed : comparisons[m].performance_analysis.winner = pattern}
      overall_winner_score == [pattern \in {"orchestrated", "choreographed"} |->
                                 2 * Cardinality(won(pattern) \cap significant)
                                 + Cardinality(won(pattern) \ significant)]
  IN [overall_winner |->
        IF overall_winner_score["orchestrated"] > overall_winner_score["choreographed"]
          THEN "orchestrated"
        ELSE IF overall_winner_score["choreographed"] > overall_winner_score["orchestrated"]
          THEN "choreographed"
        ELSE "tie",
      significant_differences |-> significant,
      total_metrics_compared |-> Cardinality(DOMAIN comparisons),
      statistically_significant_count |-> Cardinality(significant)]

\* Each aggregation below is one call on a fresh analysis (report = NoReport).

\* run_real_network_load_test computes its metrics; the loop sleeps 0.1 s
\* after every request, so a non-empty batch has taken time
AggregateRealNetwork ==
  /\ report = NoReport
  /\ \E rs \in BatchInputs, elapsed \in ElapsedSeconds :
      /\ Len(rs) = 0 \/ elapsed > 0
      /\ batch_results' = rs
      /\ total_duration' = elapsed
      /\ report' = run_real_network_load_test_metrics(rs, elapsed)
      /\ UNCHANGED <<injector_vars, driver_vars, harness_vars, metric_data>>

\* analyze_results(results, total_duration)
AnalyzeResults ==
  /\ report = NoReport
  /\ \E rs \in BatchInputs, elapsed \in ElapsedSeconds :
      /\ batch_results' = rs
      /\ total_duration' = elapsed
      /\ report' = analyze_results(rs, elapsed)
      /\ UNCHANGED <<injector_vars, driver_vars, harness_vars, metric_data>>

\* optimized_load_test computes its metrics; it sleeps 0.01 s after every
\* submit, so a batch with a result has taken time
AggregateOptimized ==
  /\ report = NoReport
  /\ \E rs \in BatchInputs, elapsed \in ElapsedSeconds :
      /\ Len(rs) = 0 \/ elapsed > 0
      /\ batch_results' = rs
      /\ total_duration' = elapsed
      /\ report' = optimized_load_test_metrics(rs, Len(rs), elapsed)
      /\ UNCHANGED <<injector_vars, driver_vars, harness_vars, metric_data>>

\* percentile(data, percent)
Percentile ==
  /\ report = NoReport
  /\ \E data \in PercentileData, percent \in Percents :
      /\ report' = [fn |-> "percentile", exc |-> None, data |-> data, percent |-> percent,
                    value |-> percentile(data, percent)]
      /\ batch_results' = <<>> /\ total_duration' = 0
      /\ UNCHANGED <<injector_vars, driver_vars, harness_vars, metric_data>>

\* the samples of one group of one metric; the comparison does not depend on
\* their order, so the lists are drawn in ascending order
SampleValues == {10, 20}
Samples == {xs \in SeqsUpTo(SampleValues, MaxSamples) : sorted(xs) = xs}

MetricNames == Range(metrics_to_compare)

\* what the library calls return: p-values on either side of alpha, -1 for a
\* call that raises
NormalityDraws == {0 - 1, alpha, alpha + 1}
SignificanceDraws == {0 - 1, alpha - 1, alpha}
LibDraws == [shapiro_orch : NormalityDraws, shapiro_choreo : NormalityDraws,
             levene_p : NormalityDraws, ttest_p : SignificanceDraws,
             mwu_p : SignificanceDraws]
NoLib == [shapiro_orch |-> alpha, shapiro_choreo |-> alpha, levene_p |-> alpha,
          ttest_p |-> alpha, mwu_p |-> alpha]
\* no library call is made on a group of fewer than 3 samples
LibFor(orch_data, choreo_data) ==
  IF Len(orch_data) < 3 \/ Len(choreo_data) < 3 THEN {NoLib} ELSE LibDraws

\* StatisticalAnalyzer.compare_metrics(orch_metrics, choreo_metrics, metric_name)
CompareMetrics ==
  /\ report = NoReport
  /\ \E metric_name \in MetricNames, orch_data \in Samples, choreo_data \in Samples :
      \E lib \in LibFor(orch_data, choreo_data) :
        /\ metric_data' = [metric_name |-> metric_name, orchestrated |-> orch_data,
                           choreographed |-> choreo_data]
        /\ report' = compare_metrics(orch_data, choreo_data, metric_name, lib)
        /\ batch_results' = <<>> /\ total_duration' = 0
        /\ UNCHANGED <<injector_vars, driver_vars, harness_vars>>

\* OptimizedStatisticalAnalyzer.compare_metrics(orch_metrics, choreo_metrics,
\* metric_name)
CompareMetricsOptimized ==
  /\ report = NoReport
  /\ \E metric_name \in MetricNames, orch_data \in Samples, choreo_data \in Samples :
      \E lib \in LibFor(orch_data, choreo_data) :
        /\ metric_data' = [metric_name |-> metric_name, orchestrated |-> orch_data,
                           choreographed |-> choreo_data]
        /\ report' = compare_metrics_optimized(orch_data, choreo_data, metric_name, lib)
        /\ batch_results' = <<>> /\ total_duration' = 0
        /\ UNCHANGED <<injector_vars, driver_vars, harness_vars>>

\* the library's answers during a run: one group's normality, and the
\* significance of either test, vary
RunLibDraws == {lib \in LibDraws : /\ lib.shapiro_choreo = alpha + 1
                                   /\ lib.levene_p = alpha + 1}

\* the lists extract_metrics hands to a run: none, too few, or enough values
RunGroups == {<<>>, <<10>>, <<10, 20, 20>>}
FullGroup == <<20, 20, 20>>

\* StatisticalAnalyzer.run_complete_analysis(): one pattern's metrics are drawn
\* per metric, the other pattern has enough samples of every metric
RunCompleteAnalysis ==
  /\ report = NoReport
  /\ \E drawn \in [MetricNames -> RunGroups], swap \in BOOLEAN, lib \in RunLibDraws :
      LET full == [m \in MetricNames |-> FullGroup]
          orch_metrics == IF swap THEN full ELSE drawn
          choreo_metrics == IF swap THEN drawn ELSE full
      IN /\ metric_data' = [metric_name |-> "all", orchestrated |-> orch_metrics,
                            choreographed |-> choreo_metrics]
         /\ report' = run_complete_analysis(orch_metrics, choreo_metrics, lib)
         /\ batch_results' = <<>> /\ total_duration' = 0
         /\ UNCHANGED <<injector_vars, driver_vars, harness_vars>>

\* the part of a comparison entry that generate_summary reads: the winner and
\* the significance flag of a metric that was compared, or the diagnostic
\* entry of one that was not
SummaryEntries ==
  {[error |-> None, effect_size |-> Absent,
    performance_analysis |-> [winner |-> w, improvement_percent |-> Frac(0, 1),
                              statistically_significant |-> sig]] :
     w \in {"orchestrated", "choreographed"}, sig \in BOOLEAN}
  \cup {[error |-> "insufficient_data", effect_size |-> Absent,
         performance_analysis |-> Absent]}

\* StatisticalAnalyzer.generate_summary() on the comparisons of a run
GenerateSummary ==
  /\ report = NoReport
  /\ \E comparisons \in [MetricNames -> SummaryEntries] :
      /\ report' = [fn |-> "generate_summary", impl |-> "archived", exc |-> None,
                    comparisons |-> comparisons,
                    overall_winner |-> generate_summary(comparisons).overall_winner.pattern]
      /\ metric_data' = NoMetricData
      /\ batch_results' = <<>> /\ total_duration' = 0
      /\ UNCHANGED <<injector_vars, driver_vars, harness_vars>>

\* OptimizedStatisticalAnalyzer.generate_summary() on the comparisons of a run
GenerateSummaryOptimized ==
  /\ report = NoReport
  /\ \E comparisons \in [MetricNames -> SummaryEntries] :
      /\ report' = [fn |-> "generate_summary", impl |-> "optimized", exc |-> None,
                    comparisons |-> comparisons,
                    overall_winner |-> generate_summary_optimized(comparisons).overall_winner]
      /\ metric_data' = NoMetricData
      /\ batch_results' = <<>> /\ total_duration' = 0
      /\ UNCHANGED <<injector_vars, driver_vars, harness_vars>>

\* the values of d handed to interpret_effect_size: k / 100, of either sign
EffectSizes == (0 - MaxEffect)..MaxEffect

\* the finite Cohen's d of k hundredths
Hundredths(k) == Finite(Sign(k), Frac(k * k, 10000))

\* StatisticalAnalyzer.interpret_effect_size(cohens_d)
InterpretEffectSize ==
  /\ report = NoReport
  /\ \E k \in EffectSizes :
      /\ report' = [fn |-> "interpret_effect_size", exc |-> None, hundredths |-> k,
                    cohens_d |-> Hundredths(k),
                    interpretation |-> interpret_effect_size(Hundredths(k))]
      /\ metric_data' = NoMetricData
      /\ batch_results' = <<>> /\ total_duration' = 0
      /\ UNCHANGED <<injector_vars, driver_vars, harness_vars>>

AnalysisInit == InjectorInit /\ controller = "sim" /\ DriverOff /\ AnalysisOff /\ HarnessOff

AnalysisNext ==
  \/ AggregateRealNetwork
  \/ AnalyzeResults
  \/ AggregateOptimized
  \/ Percentile
  \/ CompareMetrics
  \/ CompareMetricsOptimized
  \/ RunCompleteAnalysis
  \/ GenerateSummary
  \/ GenerateSummaryOptimized
  \/ InterpretEffectSize

AnalysisSpec == AnalysisInit /\ [][AnalysisNext]_vars

(* ----------------------- properties of the injector -------------------- *)

\* the active configuration of the controller under test
Active ==
  IF controller = "sim" THEN <<active_profile, active_load, active_scenario>>
  ELSE <<active_chaos>>

\* the loss/error rate the controller under test draws against, -1 if it draws none
ActiveRate ==
  IF controller = "sim"
    THEN IF active_profile = None THEN -1
         ELSE profiles[active_profile].packet_loss_rate
    ELSE IF active_chaos = None THEN -1
         ELSE chaos_scenarios[active_chaos].error_rate

InjectedFailures == {Raise("ConnectionError", "NETWORK_SIM: Packet loss"),
                     Raise("ConnectionError", "CHAOS: Simulated network error")}

\* a wrap that did nothing but call the operation once, with the caller's
\* arguments, and hand back what the operation returned or raised
PassThrough(w) ==
  /\ w.steps = <<Invoke>>
  /\ w.delays = NoDelays
  /\ Len(w.calls) = 1
  /\ w.calls[1].args = w.args
  /\ w.result = w.calls[1].did
  /\ w.result \notin InjectedFailures

\* C1: after clear_simulation(), whatever apply/clear calls came before, a
\* wrap is a pass-through: no server-processing delay, no network delay, no
\* injected failure, the operation called exactly once and its result returned.
C1_WrapAfterClearIsPassThrough ==
  (controller = "sim" /\ phase.sim = "cleared" /\ last_call.op = "wrap")
    => PassThrough(wrapped)

\* C2: while no scenario has ever been applied, a wrap calls the operation
\* exactly once with the caller's arguments, sleeps for nothing, raises no
\* injected failure and returns the operation's result unchanged.
C2_WrapBeforeAnyApplyIsPassThrough ==
  (last_call.op = "wrap" /\ phase[controller] = "fresh") => PassThrough(wrapped)

C2_Witness ==
  /\ controller = "sim" /\ phase.sim = "fresh" /\ last_call.op = "wrap"
  /\ wrapped.args = "args_b"
  /\ wrapped.calls = <<Called("args_b", Response(200, TRUE, 3750))>>
  /\ wrapped.result = Response(200, TRUE, 3750)

\* C3: in a wrap under an active network profile, a loss draw below the rate
\* makes the call fail with the injected failure without any call of the
\* operation; a draw not below the rate leads to exactly one call.
C3_LossDrawDecidesInvocation ==
  (last_call.op = "wrap" /\ ActiveRate # -1) =>
     /\ wrapped.loss_draw \in 0..999
     /\ IF wrapped.loss_draw < ActiveRate
          THEN wrapped.result \in InjectedFailures /\ wrapped.calls = <<>>
          ELSE /\ Len(wrapped.calls) = 1
               /\ wrapped.result = wrapped.calls[1].did
               /\ wrapped.result \notin InjectedFailures

C3_Witness ==
  /\ controller = "sim" /\ last_call.op = "wrap" /\ active_profile = "wan_poor"
  /\ wrapped.loss_draw = 99
  /\ wrapped.result = Raise("ConnectionError", "NETWORK_SIM: Packet loss")
  /\ wrapped.calls = <<>>

\* C4: an apply with a name that is not in the catalog raises the
\* unknown-name error and leaves the active scenario, network profile and
\* server-load profile as they were.
C4_UnknownApplyHasNoEffect ==
  [][(last_call'.op = "apply"
       /\ last_call'.arg \notin (IF controller = "sim" THEN DOMAIN scenarios
                                                        ELSE DOMAIN chaos_scenarios))
      => /\ raised'.cls = "ValueError"
         /\ raised'.arg = last_call'.arg
         /\ activation' = NoActivation
         /\ UNCHANGED <<active_profile, active_load, active_scenario, active_chaos>>]_vars

C4_Witness ==
  /\ controller = "sim" /\ last_call = Call("sim", "apply", "no_such_name")
  /\ raised = ValueError("Unknown scenario", "no_such_name")
  /\ active_scenario = "mobile_users" /\ active_profile = "mobile_4g"
  /\ active_load = "heavy"

\* what two activation records must agree on: everything but the timestamps
Configs(a) ==
  IF controller = "sim"
    THEN <<a.scenario_applied, a.config, a.simulation_mode,
           a.network_simulation.profile_applied, a.network_simulation.config,
           a.network_simulation.simulation_mode,
           a.server_simulation.load_applied, a.server_simulation.config>>
    ELSE <<a.scenario_applied, a.config, a.chaos_mode>>

\* C5: applying the same catalog scenario twice in a row gives two activation
\* records with identical config fields, and the second apply leaves the
\* active state exactly as the first one left it.
C5_ReapplyIsIdempotent ==
  [][(/\ last_call.op = "apply" /\ raised = NoExc
      /\ last_call'.op = "apply" /\ last_call'.arg = last_call.arg
      /\ clock' # clock)
      => /\ raised' = NoExc
         /\ Configs(activation') = Configs(activation)
         /\ prev_activation' = activation
         /\ UNCHANGED <<active_profile, active_load, active_scenario, active_chaos>>]_vars

C5_Witness ==
  /\ controller = "sim" /\ last_call = Call("sim", "apply", "poor_connectivity")
  /\ prev_activation # NoActivation /\ activation # NoActivation
  /\ prev_activation.scenario_applied = "poor_connectivity"
  /\ activation.scenario_applied = "poor_connectivity"
  /\ activation.timestamp # prev_activation.timestamp
  /\ activation.config = prev_activation.config

\* C6: every delay the injector computes and every delay it sleeps for
\* (server CPU, server I/O, network, bandwidth) is >= 0, whatever the profile
\* and however negative the jitter or variability draw.
C6_DelaysAreNonNegative ==
  last_call.op = "wrap" =>
     /\ wrapped.delays.cpu >= 0 /\ wrapped.delays.io >= 0
     /\ wrapped.delays.net >= 0 /\ wrapped.delays.bw >= 0
     /\ \A i \in 1..Len(wrapped.steps) : wrapped.steps[i].dur >= 0

\* every delay of one wrap was clamped: all four draws far below the mean
C6_Witness ==
  /\ controller = "sim" /\ last_call.op = "wrap" /\ active_scenario = "disaster_recovery"
  /\ wrapped.steps = <<LossDraw, Invoke>>
  /\ wrapped.result = Response(200, TRUE, 3750)
  /\ wrapped.delays = NoDelays

\* the place of a step in the order of a wrap
StepRank(s) ==
  CASE s.step = "sleep_cpu" -> 1
    [] s.step = "sleep_io" -> 2
    [] s.step = "loss_draw" -> 3
    [] s.step = "sleep_network" -> 4
    [] s.step = "invoke" -> 5
    [] s.step = "sleep_bandwidth" -> 6
    [] OTHER -> 0

StepNames(w) == {w.steps[i].step : i \in 1..Len(w.steps)}

\* C23: the steps of a wrap under an active scenario come in the order CPU
\* delay, I/O delay, packet-loss draw, network delay, call of the operation,
\* bandwidth delay; the bandwidth delay is slept only after the operation has
\* returned a result that has a content, and no sleep follows a failure.
C23_WrapStepsInOrder ==
  (controller = "sim" /\ last_call.op = "wrap" /\ active_scenario # None) =>
     /\ \A i \in 1..Len(wrapped.steps) : StepRank(wrapped.steps[i]) > 0
     /\ \A i \in 1..(Len(wrapped.steps) - 1) :
          StepRank(wrapped.steps[i]) < StepRank(wrapped.steps[i + 1])
     /\ "loss_draw" \in StepNames(wrapped)
     /\ "sleep_bandwidth" \in StepNames(wrapped) =>
          /\ "invoke" \in StepNames(wrapped)
          /\ wrapped.result.kind = "return" /\ wrapped.result.has_content
     /\ wrapped.result.kind = "raise" =>
          wrapped.steps[Len(wrapped.steps)].step \in {"loss_draw", "invoke"}

C23_Witness ==
  /\ controller = "sim" /\ last_call.op = "wrap" /\ active_scenario = "poor_connectivity"
  /\ Len(wrapped.steps) = 6
  /\ wrapped.steps[1].step = "sleep_cpu" /\ wrapped.steps[6].step = "sleep_bandwidth"
  /\ wrapped.result = Response(200, TRUE, 3750)

\* C24: after a successful apply(s) the active scenario is s and the active
\* network and server-load profiles are the ones s references, whatever was
\* applied or cleared before; and whenever a scenario is active the active
\* profiles are its own.
C24_OneActiveScenario ==
  /\ (controller = "sim" /\ last_call.op = "apply" /\ raised = NoExc) =>
       /\ active_scenario = last_call.arg
       /\ active_profile = scenarios[last_call.arg].network_profile
       /\ active_load = scenarios[last_call.arg].server_load
  /\ (controller = "sim" /\ active_scenario # None) =>
       /\ active_profile = scenarios[active_scenario].network_profile
       /\ active_load = scenarios[active_scenario].server_load
  /\ (controller = "chaos" /\ last_call.op = "apply" /\ raised = NoExc) =>
       active_chaos = last_call.arg

C24_Witness ==
  /\ controller = "sim" /\ last_call.op = "apply" /\ raised = NoExc
  /\ last_call.arg = "enterprise_lan"
  /\ prev_activation.scenario_applied = "disaster_recovery"
  /\ active_load = "light" /\ active_profile = "lan"

\* C25: a wrap, whether it succeeds, fails by injection or hands on the error
\* of the operation, leaves the active scenario, the active network profile,
\* the active server-load profile and the active chaos scenario as they were
\* (the catalog tables are constants of the model: nothing assigns to them).
C25_WrapOnlyReadsChaosState ==
  [][last_call'.op = "wrap"
       => UNCHANGED <<active_scenario, active_profile, active_load, active_chaos>>]_vars

C25_Witness ==
  /\ controller = "sim" /\ last_call.op = "wrap" /\ active_scenario = "mobile_users"
  /\ wrapped.result = Raise("ConnectionError", "NETWORK_SIM: Packet loss")

(* ---------------------- properties of the load drivers ----------------- *)

\* the exception classes that can be raised inside an attempt
AttemptExceptions == {"Timeout", "ConnectionError", "AttributeError"}

\* the results the running batch holds: collected ones and those finished
\* futures still hold
Produced ==
  {results[i] : i \in 1..Len(results)}
    \cup {futures[i].out : i \in {j \in 1..Len(futures) : futures[j].state = "finished"}}

\* C7: whatever is raised inside an attempt (injected failure, timeout,
\* transport error) becomes a result with success = false and an error tag;
\* it never escapes the driver and never stops the remaining attempts: a
\* batch that returns holds exactly as many results as it scheduled attempts.
C7_AttemptFailuresAreIsolated ==
  /\ driver_exc \notin AttemptExceptions
  /\ \A r \in Produced :
       /\ r.exc = NoExc
       /\ r.exc_cls # None => (~r.success /\ r.error # None)
  /\ pc = "raised" => driver_exc \in {"ValueError", "ZeroDivisionError"}
  /\ (pc = "raised" /\ driver_exc = "ZeroDivisionError") => BatchSize = 0
  /\ pc = "returned" =>
       /\ Len(results) = BatchSize
       /\ summary.total_requests = BatchSize

\* a sequential batch of three returned although its first attempt failed by
\* injection and its second by a timeout
C7_Witness ==
  /\ suite = "real_network" /\ pc = "returned" /\ config.max_workers = 0
  /\ Len(results) = 3
  /\ results[1].error = "NETWORK_SIM: Packet loss" /\ ~results[1].success
  /\ results[2].exc_cls = "Timeout" /\ ~results[2].success
  /\ results[3].success
  /\ summary = [total_requests |-> 3, successful_requests |-> 1]

\* C8: a concurrent batch returns only when every submitted attempt has
\* produced a result, and what it returns holds exactly one result per
\* submitted attempt, in whatever order the workers complete.
C8_OneResultPerSubmittedAttempt ==
  config.max_workers > 0 =>
    /\ yielded \subseteq 1..Len(futures)
    /\ Len(results) = Cardinality(yielded)
    /\ \A i \in 1..Len(futures) : (futures[i].state = "taken") <=> (i \in yielded)
    /\ pc = "returned" =>
         /\ Len(futures) = BatchSize
         /\ yielded = 1..BatchSize
         /\ Len(results) = BatchSize
         /\ summary.total_requests = BatchSize

\* three requests on two threads have returned three results, one success
\* and two failures
C8_Witness ==
  /\ suite = "48h" /\ pc = "returned" /\ config = [num_requests |-> 3, max_workers |-> 2]
  /\ Len(results) = 3 /\ yielded = {1, 2, 3}
  /\ results[1].success /\ ~results[2].success /\ ~results[3].success

\* C9: in a concurrent batch on a pool of max_workers threads, the attempts
\* started and not finished never number more than max_workers, also when
\* more requests than threads are submitted.
C9_InFlightBoundedByPoolSize ==
  /\ Cardinality(InFlight) <= MaxWorkers
  /\ pc \notin PoolBatches => InFlight = {}

\* both threads of a pool of two are busy while a third request waits
C9_Witness ==
  /\ pc = "run_load_test" /\ config = [num_requests |-> 3, max_workers |-> 2]
  /\ Len(futures) = 3
  /\ InFlight = {1, 2}
  /\ futures[3].state = "pending"

Batches == {"load"} \cup PoolBatches

\* C11: a batch that was entered eventually returns its result list, whatever
\* number of attempts it schedules, provided every call of the operation
\* comes back.
C11_BatchAlwaysReturns == (pc \in Batches) ~> (pc = "returned")

\* a batch that schedules at least one attempt eventually returns
BatchOfAtLeastOneReturns == (pc \in Batches /\ BatchSize >= 1) ~> (pc = "returned")

\* a batch ends by raising only when it scheduled no attempt
BatchRaisesOnlyWhenEmpty ==
  (pc = "raised" /\ driver_exc # "ValueError") =>
     (driver_exc = "ZeroDivisionError" /\ BatchSize = 0 /\ results = <<>>)

(* --------------------- properties of the aggregation ------------------- *)

\* the functions that turn a batch's results into a summary
Aggregations == {"run_real_network_load_test", "analyze_results", "optimized_load_test"}

successful_count == Len(successful(batch_results))
total_count == Len(batch_results)

\* successful_count / total_count in the unit the summary uses: a fraction,
\* or a percentage in analyze_results
SuccessRate(fn) ==
  IF fn = "analyze_results" THEN Frac(successful_count * 100, total_count)
  ELSE Frac(successful_count, total_count)

\* C12: aggregating a batch never divides by zero; an empty batch has success
\* rate 0 and a non-empty one successful_count / total_count.
C12_SuccessRateNeverDividesByZero ==
  report.fn \in Aggregations =>
    /\ report.exc = None
    /\ report.success_rate = IF total_count = 0 THEN Frac(0, 1) ELSE SuccessRate(report.fn)

\* a summary of a non-empty batch is computed and has the right success rate
SuccessRateOfNonEmptyBatch ==
  (report.fn \in Aggregations /\ total_count > 0) =>
    /\ report.exc = None
    /\ report.success_rate = SuccessRate(report.fn)

\* the latency statistics an aggregation computes from a list of durations
ExpectedLatency(fn, durations) ==
  IF fn = "analyze_results"
    THEN [avg_duration |-> mean(durations), median_duration |-> median(durations),
          p95_duration |-> p95_nearest_rank(durations)]
    ELSE latency_stats(durations)

\* every latency field is there and is 0
IsZeroLatency(ls) ==
  /\ ls # Absent
  /\ \A f \in DOMAIN ls : ls[f] \in {Frac(0, 1), Sqrt(Frac(0, 1))}

\* C13: the latency statistics of a summary are those of the successful
\* attempts' durations alone, and are all 0 when no attempt succeeded.
C13_LatencyOverSuccessfulOnly ==
  (report.fn \in Aggregations /\ report.exc = None) =>
    LET durations == duration_ms(successful(batch_results))
    IN  IF durations # <<>>
          THEN report.latency_stats = ExpectedLatency(report.fn, durations)
          ELSE IsZeroLatency(report.latency_stats)

\* C14: the throughput of a summary is the number of successful attempts
\* divided by the elapsed seconds of the batch.
C14_ThroughputCountsSuccessesOnly ==
  (report.fn \in Aggregations /\ report.exc = None /\ total_duration > 0) =>
    report.throughput_req_s = Frac(successful_count, total_duration)

\* linear interpolation between the order statistics of ascending v at
\* k = (n - 1) * p / 100, with f = floor(k) and c = f + 1
Interpolated(v, p) ==
  LET n == Len(v)
      k100 == (n - 1) * p
      f == k100 \div 100
      c == f + 1
  IN  IF c >= n THEN Frac(v[n], 1)
      ELSE Frac(v[f + 1] * (100 * c - k100) + v[c + 1] * (k100 - 100 * f), 100)

\* C15: a percentile is the linear interpolation between order statistics,
\* for percentile(data, p) and for the P95 analyze_results computes;
\* percentile([10, 20, 30, 40], 95) is 38.5.
C15_PercentileIsLinearInterpolation ==
  /\ (report.fn = "percentile" /\ report.data # <<>>) =>
       report.value = Interpolated(sorted(report.data), report.percent)
  /\ (report.fn = "percentile" /\ report.data = <<10, 20, 30, 40>> /\ report.percent = 95) =>
       report.value = Frac(77, 2)
  /\ (report.fn = "analyze_results" /\ report.exc = None /\ successful_count > 0) =>
       report.latency_stats.p95_duration =
         Interpolated(sorted(duration_ms(successful(batch_results))), 95)

\* percentile(data, p) itself is the linear interpolation
PercentileFunctionInterpolates ==
  (report.fn = "percentile" /\ report.data # <<>>) =>
    /\ report.value = Interpolated(sorted(report.data), report.percent)
    /\ (report.data = <<10, 20, 30, 40>> /\ report.percent = 95) => report.value = Frac(77, 2)

\* the least and the greatest element of a non-empty list
Least(data) ==
  CHOOSE x \in {data[i] : i \in 1..Len(data)} : \A i \in 1..Len(data) : x <= data[i]
Greatest(data) ==
  CHOOSE x \in {data[i] : i \in 1..Len(data)} : \A i \in 1..Len(data) : x >= data[i]

\* C16: for every non-empty data, sorted or not, of length 1 or more,
\* percentile(data, 0) is its minimum and percentile(data, 100) its maximum.
C16_PercentileExtremes ==
  (report.fn = "percentile" /\ report.data # <<>>) =>
    /\ report.percent = 0 => report.value = Frac(Least(report.data), 1)
    /\ report.percent = 100 => report.value = Frac(Greatest(report.data), 1)

\* the maximum of unsorted data whose last element is not the greatest
C16_Witness ==
  /\ report.fn = "percentile" /\ report.data = <<30, 40, 10>> /\ report.percent = 100
  /\ report.value = Frac(40, 1)

(* --------------------- properties of the comparison --------------------- *)

Comparisons == {"compare_metrics"}

TooFew(orch_data, choreo_data) == Len(orch_data) < 3 \/ Len(choreo_data) < 3

\* the entry of a group of too few samples: the diagnostic, and no test run
IsDiagnostic(entry) ==
  /\ entry.exc = None
  /\ entry.error = "insufficient_data"
  /\ entry.tests_run = <<>>

\* C17: a metric of which either group has fewer than 3 samples has an
\* insufficient-sample diagnostic entry in the report, no normality or
\* hypothesis test is run for it, no exception is raised, and the other
\* metrics are compared and the summary is made.
C17_InsufficientSamplesAreDiagnosed ==
  /\ report.fn \in Comparisons /\ TooFew(metric_data.orchestrated, metric_data.choreographed)
       => IsDiagnostic(report)
  /\ report.fn = "run_complete_analysis" =>
       /\ report.exc = None
       /\ \A m \in MetricNames :
            /\ m \in DOMAIN report.comparisons
            /\ IF TooFew(metric_data.orchestrated[m], metric_data.choreographed[m])
                 THEN IsDiagnostic(report.comparisons[m])
                 ELSE report.comparisons[m].error = None
       /\ report.summary.overall_winner.pattern \in {"orchestrated", "choreographed", "tie"}

\* compare_metrics of either analyzer, called on a group of 0, 1 or 2 samples,
\* returns the diagnostic entry
CompareMetricsDiagnosesTooFew ==
  report.fn \in Comparisons /\ TooFew(metric_data.orchestrated, metric_data.choreographed)
    => IsDiagnostic(report)

\* a run in which every group has at least one sample has the diagnostic entry
\* of each metric with too few, a comparison of each other metric, and a summary
RunDiagnosesNonEmptyGroups ==
  report.fn = "run_complete_analysis"
    /\ (\A m \in MetricNames : metric_data.orchestrated[m] # <<>>
                                /\ metric_data.choreographed[m] # <<>>)
    => /\ report.exc = None
       /\ \A m \in MetricNames :
            /\ m \in DOMAIN report.comparisons
            /\ IF TooFew(metric_data.orchestrated[m], metric_data.choreographed[m])
                 THEN IsDiagnostic(report.comparisons[m])
                 ELSE report.comparisons[m].error = None
       /\ report.summary.overall_winner.pattern \in {"orchestrated", "choreographed", "tie"}

\* a comparison that ran its tests and returned
Compared == /\ report.fn \in Comparisons
            /\ report.exc = None
            /\ report.error = None

\* no hypothesis test raised during the comparison: a test is reported, and
\* the rank test did not run as the fallback of a failed t-test
NoTestRaised ==
  /\ report.statistical_test.test # "error"
  /\ ~ ("levene" \in Range(report.tests_run) /\ "mannwhitneyu" \in Range(report.tests_run))

BothNormal == report.normality_tests.orchestrated /\ report.normality_tests.choreographed

TTests == {"Independent t-test (equal_var=True)", "Independent t-test (equal_var=False)",
           "Independent t-test"}

\* C18: when both groups are judged normal a test of the homogeneity of the
\* variances is run and the t-test is the reported test; otherwise the
\* Mann-Whitney U test is the reported test; only the reported test is run.
C18_TestFollowsNormality ==
  Compared /\ NoTestRaised =>
    IF BothNormal
      THEN /\ "levene" \in Range(report.tests_run)
           /\ report.statistical_test.levene_test # Absent
           /\ report.statistical_test.test \in TTests
           /\ "mannwhitneyu" \notin Range(report.tests_run)
      ELSE /\ report.statistical_test.test = "Mann-Whitney U test"
           /\ "ttest_ind" \notin Range(report.tests_run)

\* StatisticalAnalyzer.compare_metrics chooses as C18 says, and the variance
\* treatment of its t-test is the outcome of Levene's test
ArchivedTestFollowsNormality ==
  Compared /\ report.impl = "archived" /\ NoTestRaised =>
    IF BothNormal
      THEN /\ "levene" \in Range(report.tests_run)
           /\ "mannwhitneyu" \notin Range(report.tests_run)
           /\ report.statistical_test.test =
                (IF report.statistical_test.levene_test.p_value > alpha
                   THEN "Independent t-test (equal_var=True)"
                   ELSE "Independent t-test (equal_var=False)")
      ELSE /\ report.statistical_test.test = "Mann-Whitney U test"
           /\ "ttest_ind" \notin Range(report.tests_run)

\* OptimizedStatisticalAnalyzer.compare_metrics reports one test, the t-test
\* exactly when both groups are judged normal
OptimizedReportsOneTest ==
  Compared /\ report.impl = "optimized" =>
    /\ report.statistical_test.test =
         (IF BothNormal THEN "Independent t-test" ELSE "Mann-Whitney U test")
    /\ Len(report.tests_run) = 3

ZeroVariance(xs) == Scatter(xs) = 0

\* C19: when every value of both groups is identical, Cohen's d is reported
\* as 0, of category negligible where a category is reported, and nothing is
\* raised.
C19_ZeroVarianceGivesZeroEffect ==
  /\ report.fn \in Comparisons
  /\ ~ TooFew(metric_data.orchestrated, metric_data.choreographed)
  /\ ZeroVariance(metric_data.orchestrated) /\ ZeroVariance(metric_data.choreographed)
  /\ report.exc = None
  => /\ report.effect_size.cohens_d = Finite(0, Frac(0, 1))
     /\ report.effect_size.interpretation \in {"negligible", "absent"}

\* OptimizedStatisticalAnalyzer.compare_metrics guards the zero pooled deviation
OptimizedZeroVarianceGivesZero ==
  /\ report.fn \in Comparisons /\ report.impl = "optimized"
  /\ ~ TooFew(metric_data.orchestrated, metric_data.choreographed)
  /\ ZeroVariance(metric_data.orchestrated) /\ ZeroVariance(metric_data.choreographed)
  /\ report.exc = None
  => report.effect_size.cohens_d = Finite(0, Frac(0, 1))

\* interpret_effect_size classifies a finite d by |d| < 0.2, 0.5, 0.8
EffectSizeCategories ==
  Compared /\ report.impl = "archived" /\ report.effect_size.cohens_d.kind = "finite" =>
    LET sq == report.effect_size.cohens_d.sq
    IN report.effect_size.interpretation =
         (IF 25 * sq.num < sq.den THEN "negligible"
          ELSE IF 4 * sq.num < sq.den THEN "small"
          ELSE IF 25 * sq.num < 16 * sq.den THEN "medium"
          ELSE "large")

\* the means of the two groups over the common denominator Len(a) * Len(b)
ScaledMeanA == Sum(metric_data.orchestrated) * Len(metric_data.choreographed)
ScaledMeanB == Sum(metric_data.choreographed) * Len(metric_data.orchestrated)

\* |meanA - meanB| / max(meanA, meanB) * 100
ClaimedImprovement ==
  Frac(100 * Abs(ScaledMeanA - ScaledMeanB),
       IF ScaledMeanA > ScaledMeanB THEN ScaledMeanA ELSE ScaledMeanB)

\* the winner of two different means
ClaimedWinner ==
  IF metric_data.metric_name \in {"latencies", "p95_latencies"}
    THEN (IF ScaledMeanA < ScaledMeanB THEN "orchestrated" ELSE "choreographed")
    ELSE (IF ScaledMeanA > ScaledMeanB THEN "orchestrated" ELSE "choreographed")

\* C20: of two different means the lower wins for the latency metrics and the
\* higher for throughput and success rate, and improvement_percent is
\* |meanA - meanB| / max(meanA, meanB) * 100 for every metric.
C20_WinnerAndImprovement ==
  Compared =>
    /\ ScaledMeanA # ScaledMeanB => report.performance_analysis.winner = ClaimedWinner
    /\ report.performance_analysis.improvement_percent = ClaimedImprovement

\* the winner is as C20 says in both analyzers
WinnerFollowsMetricKind ==
  Compared /\ ScaledMeanA # ScaledMeanB => report.performance_analysis.winner = ClaimedWinner

\* the improvement is as C20 says in the optimized analyzer, and in the other
\* for the latency metrics
ImprovementOverMaxElsewhere ==
  Compared /\ (report.impl = "optimized" \/ metric_data.metric_name \in LatencyMetrics)
    => report.performance_analysis.improvement_percent = ClaimedImprovement

(* ----------------------- properties of the summary ---------------------- *)

\* the score of a side: 2 for each metric it wins significantly, 1 for each
\* it wins otherwise
Score(comparisons, pattern) ==
  LET wins == {m \in DOMAIN comparisons :
                 /\ comparisons[m].performance_analysis # Absent
                 /\ comparisons[m].performance_analysis.winner = pattern}
      sig == {m \in wins : comparisons[m].performance_analysis.statistically_significant}
  IN 2 * Cardinality(sig) + Cardinality(wins \ sig)

ByScore(comparisons) ==
  IF Score(comparisons, "orchestrated") > Score(comparisons, "choreographed")
    THEN "orchestrated"
  ELSE IF Score(comparisons, "choreographed") > Score(comparisons, "orchestrated")
    THEN "choreographed"
  ELSE "tie"

\* C21: the overall winner is the side with the strictly higher score, a
\* metric counting 2 for its winner when significant and 1 when not, and equal
\* scores give 'tie'.
C21_OverallWinnerByScore ==
  report.fn = "generate_summary" => report.overall_winner = ByScore(report.comparisons)

\* OptimizedStatisticalAnalyzer.generate_summary scores as C21 says
OptimizedOverallWinnerByScore ==
  report.fn = "generate_summary" /\ report.impl = "optimized"
    => report.overall_winner = ByScore(report.comparisons)

\* StatisticalAnalyzer.generate_summary scores as C21 says when every win is
\* significant
ArchivedOverallWinnerOfSignificantWins ==
  /\ report.fn = "generate_summary" /\ report.impl = "archived"
  /\ \A m \in DOMAIN report.comparisons :
       report.comparisons[m].performance_analysis # Absent
         => report.comparisons[m].performance_analysis.statistically_significant
  => report.overall_winner = ByScore(report.comparisons)

(* ------------------- order of the results of a batch -------------------- *)

\* the lists that hold the elements of s in another order
Reorderings(s) ==
  {[i \in 1..Len(s) |-> s[f[i]]] :
     f \in {g \in [1..Len(s) -> 1..Len(s)] : \A i, j \in 1..Len(s) : g[i] = g[j] => i = j}}

\* the summary the aggregation fn makes of the results rs
SummaryOf(fn, rs, elapsed_s) ==
  CASE fn = "run_real_network_load_test" -> run_real_network_load_test_metrics(rs, elapsed_s)
    [] fn = "analyze_results" -> analyze_results(rs, elapsed_s)
    [] fn = "optimized_load_test" -> optimized_load_test_metrics(rs, Len(rs), elapsed_s)

\* C27: the summary of a batch (counts, success rate, throughput, mean,
\* median, min, max, percentiles) is the same for the results in any other
\* order, and so is every percentile of a list.
C27_AggregationIgnoresOrder ==
  /\ report.fn \in Aggregations =>
       \A rs \in Reorderings(batch_results) :
          SummaryOf(report.fn, rs, total_duration) = report
  /\ report.fn = "percentile" =>
       \A data \in Reorderings(report.data) :
          percentile(data, report.percent) = report.value

C27_Witness ==
  /\ report.fn = "run_real_network_load_test" /\ report.exc = None
  /\ Len(batch_results) = 3
  /\ duration_ms(batch_results) = <<30, 10, 30>>
  /\ report.latency_stats.median_ms = Frac(30, 1)

(* ------------------ properties of the effect size and winner ------------ *)

\* C28: the category of an effect size is that of |d|: negligible below 0.2,
\* small from 0.2 and below 0.5, medium from 0.5 and below 0.8, large from
\* 0.8, so that d and -d get the same category.
C28_EffectSizeCategoryByMagnitude ==
  report.fn = "interpret_effect_size" =>
    /\ report.interpretation =
         (IF Abs(report.hundredths) < 20 THEN "negligible"
          ELSE IF Abs(report.hundredths) < 50 THEN "small"
          ELSE IF Abs(report.hundredths) < 80 THEN "medium"
          ELSE "large")
    /\ interpret_effect_size(Hundredths(0 - report.hundredths)) = report.interpretation

C28_Witness ==
  /\ report.fn = "interpret_effect_size"
  /\ report.hundredths = 0 - 50
  /\ report.interpretation = "medium"

OtherPattern(pattern) == IF pattern = "orchestrated" THEN "choreographed" ELSE "orchestrated"

\* the "Performance winner" part of the comparison of the same two groups
\* handed over in the other order
SwappedAnalysis ==
  IF report.impl = "archived"
    THEN performance_analysis(metric_data.metric_name, metric_data.choreographed,
                              metric_data.orchestrated,
                              report.performance_analysis.statistically_significant)
    ELSE performance_analysis_max(metric_data.metric_name, metric_data.choreographed,
                                  metric_data.orchestrated,
                                  report.performance_analysis.statistically_significant)

\* C30: comparing the two groups in the other order declares the other
\* pattern the winner, with the same improvement_percent, also when the
\* means are equal.
C30_WinnerIsAntisymmetric ==
  Compared =>
    /\ SwappedAnalysis.winner = OtherPattern(report.performance_analysis.winner)
    /\ SwappedAnalysis.improvement_percent = report.performance_analysis.improvement_percent

\* of two different means the winner is swapped with the groups
WinnerSwapsWithDifferentMeans ==
  Compared /\ ScaledMeanA # ScaledMeanB
    => SwappedAnalysis.winner = OtherPattern(report.performance_analysis.winner)

\* improvement_percent is the same in either order, whatever the means
ImprovementIsSymmetric ==
  Compared =>
    SwappedAnalysis.improvement_percent = report.performance_analysis.improvement_percent

\* of two equal means 'choreographed' is the winner in either order
EqualMeansGoToChoreographed ==
  Compared /\ ScaledMeanA = ScaledMeanB
    => /\ report.performance_analysis.winner = "choreographed"
       /\ SwappedAnalysis.winner = "choreographed"

(* ------------------ properties of the scenario harnesses --------------- *)

\* the run has left the harness function, by return or by exception
RunLeft == run.stage = "left"

\* the clear the run called raised
ClearFailed == run.clear \notin {None, "completes"}

\* something the run printed or put into its result tells of an error
FailureRecorded == run.error # None \/ "[ERROR]" \in run.printed

\* the harnesses whose clear sits in try/except
SwallowingSuites == {"real_network", "optimized"}

\* C22: in test_real_world_scenario and the archived test_scenario, when the
\* clear at the end of a scenario run fails, the failure is recorded or
\* logged, it is not raised out of the run, and the run still returns its
\* result
C22_ClearFailureIsRecordedNotRaised ==
  (suite \in SwallowingSuites /\ RunLeft /\ ClearFailed)
    => (FailureRecorded /\ run.exc = None /\ run.result)

\* the part of C22 the code keeps: a failing clear is not raised out of the
\* run and the result is returned
ClearFailureIsSwallowed ==
  (suite \in SwallowingSuites /\ RunLeft /\ ClearFailed)
    => (run.exc = None /\ run.result)

\* the part it does not: `except: pass` leaves no trace of the failure
ClearFailureLeavesNoTrace ==
  (suite \in SwallowingSuites /\ RunLeft /\ ClearFailed) => ~FailureRecorded

\* the steps of test_real_world_scenario in the order of its source; a run
\* may also end at the apply (unknown name) or at a phase that raises
RunOrder ==
  {<<"idle", "applied">>, <<"applied", "stabilized">>, <<"stabilized", "load_test">>,
   <<"load_test", "concurrent_test">>, <<"concurrent_test", "left">>,
   <<"idle", "left">>, <<"load_test", "left">>}

\* an apply or a clear is executed in this step
InjectorCalled ==
  \/ last_call' # last_call /\ last_call'.op \in {"apply", "clear"}
  \/ <<active_profile, active_load, active_scenario, active_chaos>>'
       # <<active_profile, active_load, active_scenario, active_chaos>>

\* the scenario every attempt made so far has observed
ObservedScenarios ==
  {results[i].network_scenario : i \in 1..Len(results)}
    \cup {futures[i].out.network_scenario :
            i \in {j \in 1..Len(futures) : futures[j].state = "finished"}}

\* C26: a run of test_real_world_scenario applies the scenario, waits, runs
\* the sequential batch, then the concurrent batch, then clears; no apply or
\* clear is executed while a batch runs or an attempt is in flight, and every
\* attempt of the run observes the scenario the run applied
C26_RunOrderAndNoInjectorCallInFlight ==
  [][suite = "real_network" =>
       /\ run'.stage # run.stage => <<run.stage, run'.stage>> \in RunOrder
       /\ last_call'.op = "clear" /\ last_call.op # "clear"
            => run.stage = "concurrent_test" /\ pc = "returned"
       /\ InjectorCalled => InFlight = {} /\ pc \notin {"load", "concurrent"}
       /\ ObservedScenarios' \subseteq {run'.scenario_name}]_vars

\* a run of test_real_world_scenario under poor_connectivity has returned
\* after its concurrent batch of three attempts and a clear
C26_Witness ==
  /\ suite = "real_network"
  /\ run.result /\ run.clear = "completes"
  /\ run.scenario_name = "poor_connectivity"
  /\ Len(results) = 3
  /\ ObservedScenarios = {"poor_connectivity"}
  /\ last_call.op = "clear"

\* nothing of the injector the run uses is active
ChaosStateCleared ==
  IF controller = "sim"
    THEN active_profile = None /\ active_load = None /\ active_scenario = None
    ELSE active_chaos = None

\* C29: whenever a scenario run has applied a scenario, the chaos state has
\* been cleared by the time control leaves the run, on normal return and
\* when a test phase raises
C29_ClearedWhenRunLeaves ==
  (RunLeft /\ run.applied) => ChaosStateCleared

\* run_scenario_test_suite clears in finally: whatever its phases do, and
\* even when the print of clear_chaos raises, nothing is active afterwards
FinallyClears ==
  (suite = "48h" /\ RunLeft /\ run.applied) => ChaosStateCleared

\* test_scenario has cleared when it returns its result
ReturnClears ==
  (suite = "optimized" /\ RunLeft /\ run.result) => ChaosStateCleared

\* test_real_world_scenario has cleared the network profile and the
\* scenario name when it returns after a clear that completed; the load
\* profile is not touched by clear_simulation
RealNetworkReturnClearsProfile ==
  (suite = "real_network" /\ RunLeft /\ run.result /\ run.clear = "completes")
    => (active_profile = None /\ active_scenario = None
        /\ active_load = scenarios[run.scenario_name].server_load)

\* a run of test_real_world_scenario or test_scenario a phase of which
\* raised has called no clear
RaisedPhaseSkipsClear ==
  (suite \in SwallowingSuites /\ RunLeft /\ run.applied /\ run.exc # None)
    => (run.clear = None /\ ~ChaosStateCleared)

====
